---- MODULE Spec2Model ----
(***************************************************************************)
(* EvaluateFactory: the generation/execution pipeline of                   *)
(* src/app/api/run-task/route.ts (POST, runTask, executeGenerationTask,    *)
(* safeModelCall, classifyAndCacheKnowledgeContent) together with the      *)
(* test-cases route that reads and edits a run's results.json.             *)
(*                                                                         *)
(* JavaScript runs every stretch of code between two awaits atomically:    *)
(* the abort event of the request, a consumer's cancel of the response     *)
(* stream and other requests are only served while a handler is suspended  *)
(* in an await.  One action of this model is therefore one such stretch:   *)
(* it resumes a run at the await it is suspended in and executes the code  *)
(* up to the next await (operator Advance).                                *)
(***************************************************************************)
EXTENDS Integers, Sequences, FiniteSets, TLC

\* ---------------------------------------------------------------- bounds
MaxCount == 2
MaxFiles == 2
MaxWork == 5
MaxSideWork == 3
MaxRunsWork == 2
MaxClock == 2
MaxCrudId == 4
TicksPerSecond == 2

\* ------------------------------------------------------ program constants
retries == 2
RetryDelayMs == 2000
QaThreshold == 5
timeoutMs == 90000
DefaultScore == 10
CrudDefaultScore == 10

Runs == {1, 2}
Requests == {1, 2}

\* ------------------------------------------------------------- messages
CancelMsg == "task-cancelled-by-user"
CancelReport == "task-cancelled-by-user."
ZeroTasksMsg == "total-tasks-is-zero"
UnexpectedFormatMsg == "model-call-returned-unexpected-format"
CriticalErrorMsg == "critical-error-during-model-call"
UnknownErrorMsg == "unknown-error"
ReadErrorMsg == "ENOENT"
FetchFailedMsg == "fetch failed"
\* `cannot read knowledge directory ... error: ${e.message}`
KnowledgeDirMsg(inner) ==
    IF inner = CancelMsg THEN "cannot-read-knowledge-dir: task-cancelled-by-user"
    ELSE "cannot-read-knowledge-dir: ENOENT"
GenerationFailed == "generation-failed"
ParseJsonFailed == "parse-json-failed"
MissingQuestion == "parse-failed-missing-question"
MissingAnswer == "parse-failed-missing-answer"
NotAvailable == "N/A"

TaskTypes == <<"QA", "Chunk", "Document", "Comprehensive">>

\* --------------------------------------------------- knowledge directory
\* A file is its sequence of lines; a line is "Q" (starts with Q:), "A"
\* (starts with A:), "T" (any other text) or "" (blank).
RECURSIVE Pairs(_)
Pairs(n) == IF n = 0 THEN <<>> ELSE <<"Q", "A">> \o Pairs(n - 1)

\* Two files: one with six Q:/A: pairs in one paragraph (a QA file, above the
\* threshold), one with five pairs in two paragraphs (a document).
FileShapes ==
    { Pairs(6),
      Pairs(3) \o <<"", "">> \o Pairs(2) }

Corpora == UNION { [1..n -> FileShapes] : n \in 0..MaxFiles }

\* First line at or after k that is not blank (0 when there is none).
RECURSIVE NextNonBlank(_, _)
NextNonBlank(lines, k) ==
    IF k > Len(lines) THEN 0
    ELSE IF lines[k] # "" THEN k
    ELSE NextNonBlank(lines, k + 1)

\* content.match(/(^Q:.*\s*\n^A:.*)/gm): a Q: line, blank lines, an A: line.
qaRegexMatches(lines) ==
    Cardinality({ k \in 1..Len(lines) :
        /\ lines[k] = "Q"
        /\ NextNonBlank(lines, k + 1) # 0
        /\ lines[NextNonBlank(lines, k + 1)] = "A" })

\* content.split(/\n\s*\n/).filter(p => p.trim()): the maximal runs of
\* non-blank lines, each given by the index of its first line.
SplitBlocks(lines) ==
    LET starts == { k \in 1..Len(lines) :
                      lines[k] # "" /\ (k = 1 \/ lines[k - 1] = "") }
        RECURSIVE Sorted(_)
        Sorted(S) == IF S = {} THEN <<>>
                     ELSE LET m == CHOOSE x \in S : \A y \in S : x <= y
                          IN <<m>> \o Sorted(S \ {m})
    IN Sorted(starts)

Item(f, b) == [file |-> f, block |-> b]

\* ------------------------------------------------------------ run config
Prompts == {" ", "p"}
trim(p) == IF p = " " THEN "" ELSE p

Counts == 0..MaxCount

\* config.testConfig of a request body.
TestConfigs ==
    [ qaCount : Counts, chunkCount : Counts, documentCount : Counts,
      comprehensiveCount : Counts ]

\* config.project of a request body: the four system prompts, by category
\* (qaSystemPrompt, chunkSystemPrompt, documentSystemPrompt,
\* comprehensiveSystemPrompt).
Projects == [1..Len(TaskTypes) -> Prompts]

\* The body of a request is fixed when the request arrives.  A run reads each
\* system prompt exactly once, when it enters the category (lines 345-352),
\* and nothing else reads it: run.systemPrompts holds the prompts read so
\* far, and each prompt is drawn when it is read.
NoTestConfig == [ qaCount |-> 0, chunkCount |-> 0, documentCount |-> 0,
                  comprehensiveCount |-> 0 ]

\* ------------------------------------------------------------ variables
VARIABLES
    now,             \* wall clock, in ticks of 1/TicksPerSecond second
    knowledgeFiles,  \* output/project/knowledge: the files, in readdir order
    baseDirs,        \* output/result/<timestamp> directories that exist
    loopDirs,        \* <<timestamp, loop>>: output/result/<timestamp>/<loop>
    resultsFile,     \* timestamp -> state of output/result/<timestamp>/results.json
    run,             \* run -> the state of that POST /api/run-task request
    lastGet,         \* last response of GET /api/test-cases?timestamp=
    crud,            \* request -> the state of that POST /api/test-cases request
    workBound,       \* the bound on the work of this behaviour (never changes)
    call,            \* the state of the VercelAIProvider generate* call
    appStore         \* useAppStore and its item in localStorage

vars == <<now, knowledgeFiles, baseDirs, loopDirs, resultsFile, run, lastGet, crud, workBound, call, appStore>>

fsVars == <<baseDirs, loopDirs, resultsFile>>

Timestamps == 0..(MaxClock \div TicksPerSecond)

\* YYMMDD_HHMMSS: the clock truncated to whole seconds.
getTimestamp(t) == t \div TicksPerSecond

\* A results.json: absent, complete (the JSON text of entries), partial
\* (opened for writing and truncated, its new text not yet fully written) or
\* garbled (the bytes of two overlapping writes, not valid JSON).
\* writer is the operation that opened it for writing last.
AbsentFile == [state |-> "absent", entries |-> <<>>, writer |-> <<"none", 0>>]

\* fs.writeFile(path, text) is not atomic: it opens the file with flag 'w',
\* which truncates it, then writes the text, then closes it.
writeFileOpen(f, w) == [state |-> "partial", entries |-> <<>>, writer |-> w]

\* The text is written at offset 0 of whatever the file holds by then: the
\* empty file left by the last truncation, or the text another writer wrote
\* after it, whose tail stays when it is the longer one.
writeFileDone(f, w, data) ==
    IF f.state = "complete" /\ Len(f.entries) > Len(data)
    THEN [state |-> "garbled", entries |-> <<>>, writer |-> w]
    ELSE [state |-> "complete", entries |-> data, writer |-> w]


\* --------------------------------------------------- chat completion service
QaJson == "{question,answer}"
NotJson == "not json"
Contents == {QaJson, NotJson}
\* JSON objects without a question, without an answer; the empty string.
NoQuestionJson == "{answer}"
NoAnswerJson == "{question}"
AnyContents == Contents \cup {NoQuestionJson, NoAnswerJson, ""}
TotalTokens == {7}

\* What one handleChat call can do: throw, resolve without textual content,
\* or resolve with content and usage.
Responses ==
    { [kind |-> "throw", content |-> FetchFailedMsg, tokens |-> 0],
      [kind |-> "malformed", content |-> "", tokens |-> 0] }
    \cup [kind : {"content"}, content : Contents, tokens : TotalTokens]

\* usage.total_tokens of a response.
AnyTokens == {3, 7}

\* The same with every kind of content and usage.
AnyResponses ==
    { [kind |-> "throw", content |-> FetchFailedMsg, tokens |-> 0],
      [kind |-> "malformed", content |-> "", tokens |-> 0] }
    \cup [kind : {"content"}, content : AnyContents, tokens : AnyTokens]

Anomalous(resp) == resp.kind # "content" \/ resp.content # QaJson

NoResult == [success |-> FALSE, content |-> "", hasUsage |-> FALSE,
             tokens |-> 0, error |-> ""]

\* JSON.parse of the content (or of its fenced json block).
JSONparse(content) ==
    CASE content = QaJson ->
           [ok |-> TRUE, question |-> "question-text", answer |-> "answer-text"]
      [] content = NoQuestionJson ->
           [ok |-> TRUE, question |-> "", answer |-> "answer-text"]
      [] content = NoAnswerJson ->
           [ok |-> TRUE, question |-> "question-text", answer |-> ""]
      [] OTHER -> [ok |-> FALSE, question |-> "", answer |-> ""]

\* ------------------------------------------------------------- run state
IdleRun ==
    [ pc |-> "idle", config |-> NoTestConfig, systemPrompts |-> <<>>,
      runTimestamp |-> 0,
      isAborted |-> FALSE, signalAborted |-> FALSE, listener |-> FALSE,
      consumerGone |-> FALSE, refused |-> FALSE, closes |-> 0,
      closeThrew |-> FALSE, events |-> <<>>, error |-> "",
      listing |-> 0, fileIdx |-> 0,
      qaPairs |-> <<>>, chunks |-> <<>>, documents |-> <<>>,
      totalTasks |-> -1, currentTask |-> 0, totalTokenUsage |-> 0,
      allResults |-> <<>>, cat |-> 0, loop |-> 0, i |-> 0,
      attempt |-> 0, workResult |-> NoResult,
      generatedQuestion |-> "", generatedAnswer |-> "",
      \* history of the run, read by the properties only
      callTrace |-> <<>>, invocations |-> 0, started |-> <<>>,
      inFlight |-> 0, persisted |-> <<>>, anomalies |-> 0, observed |-> FALSE ]

\* Where a run is suspended in an await.
AwaitPcs == { "mkdirBase", "readdir", "readFile", "mkdirLoop", "ensureLog",
              "chat", "delay", "appendLog", "writeFile", "writing" }

Event(type, tag, cur, tot, val) ==
    [type |-> type, tag |-> tag, currentTask |-> cur, totalTasks |-> tot,
     value |-> val]

LogEvent(tag) == Event("log", tag, 0, 0, 0)

\* progress: (currentTask / totalTasks) * 100, kept as the fraction
\* <<100 * currentTask, totalTasks>>.
UpdateEvent(tag, cur, tot) == Event("update", tag, cur, tot, 0)

\* The update event of a skipped category (lines 243-248); its message names
\* the category, kept in value.
SkipEvent(cat, cur, tot) == Event("update", "skip", cur, tot, cat)

\* sendEvent: enqueue on the response stream; an enqueue that throws (the
\* consumer cancelled the stream) is logged and swallowed.
sendEvent(s, e) ==
    [s EXCEPT !.events = Append(@, e),
              !.refused = @ \/ s.consumerGone]

isCancelled(s) == s.isAborted \/ s.signalAborted

Throw(s, msg) == [s EXCEPT !.pc = "caught", !.error = msg]

\* The engine sees the cancellation signal set (a poll that answers true, or
\* the progress callback throwing).
Observe(s) == [s EXCEPT !.observed = TRUE]

\* The progress callback POST hands to runTask (lines 123-129).
onProgress(s, e) ==
    IF s.isAborted \/ s.signalAborted THEN Throw(Observe(s), CancelMsg)
    ELSE sendEvent(s, e)

\* The same callback called inside the try of classifyAndCacheKnowledgeContent:
\* whatever it throws is caught at line 201 and rethrown wrapped.
onProgressInTry(s, e) ==
    LET t == onProgress(s, e)
    IN IF t.pc = "caught" THEN Throw(t, KnowledgeDirMsg(t.error)) ELSE t

SystemPrompt(s) == s.systemPrompts[s.cat]

\* comprehensiveDummyContent holding comprehensiveCount entries per document.
comprehensiveDummyContentMutC29(s) ==
    [k \in 1..(Len(s.documents) * s.config.comprehensiveCount) |-> Item(0, 0)]

\* comprehensiveDummyContent = Array(comprehensiveCount).fill("N/A")
comprehensiveDummyContent(s) ==
    [k \in 1..s.config.comprehensiveCount |-> Item(0, 0)]

ContentArray(s) ==
    CASE s.cat = 1 -> s.qaPairs
      [] s.cat = 2 -> s.chunks
      [] s.cat = 3 -> s.documents
      [] OTHER -> comprehensiveDummyContent(s)

UserCountMutC3(s) ==
    CASE s.cat = 1 -> s.config.qaCount
      [] s.cat = 2 -> s.config.chunkCount
      [] s.cat = 3 -> s.config.documentCount
      [] OTHER -> s.config.comprehensiveCount

\* The userCount argument of the four executeGenerationTask calls (345-352).
UserCount(s) ==
    CASE s.cat = 1 -> s.config.qaCount
      [] s.cat = 2 -> s.config.chunkCount
      [] s.cat = 3 -> s.config.documentCount
      [] OTHER -> 1

\* userMessage of the task at index s.i (lines 269-286): the item itself for
\* QA, Chunk and Document, and for Comprehensive the join of all documents
\* (name and content), kept as the sequence of the documents.
UserMessage(s) ==
    IF s.cat = Len(TaskTypes) THEN s.documents
    ELSE <<ContentArray(s)[s.i + 1]>>

\* handleChat is called: the run is suspended in it.
startChat(s) ==
    [s EXCEPT !.pc = "chat",
              !.invocations = @ + 1,
              !.callTrace = Append(@, [kind |-> "attempt", ms |-> 0,
                                       outcome |-> "pending",
                                       content |-> ""])]


\* ----------------------------------------------- the code between awaits
\* classifyAndCacheKnowledgeContent, lines 167-176: up to `await readdir`.
StepScan(s) ==
    LET t == onProgress(s, LogEvent("scan-knowledge-dir"))
    IN IF t.pc = "caught" THEN t ELSE [t EXCEPT !.pc = "readdir"]

\* for (const fileName of knowledgeFiles): up to `await readFile`.
StepFiles(s) ==
    IF s.fileIdx <= s.listing THEN [s EXCEPT !.pc = "readFile"]
    ELSE [s EXCEPT !.pc = "plan"]

\* classifyFile taking a file with QaThreshold matches for a QA file.
classifyFileMutC20(s, content) ==
    LET blocks == SplitBlocks(content)
        items == [k \in 1..Len(blocks) |-> Item(s.fileIdx, blocks[k])]
    IN IF qaRegexMatches(content) >= QaThreshold
       THEN LET t == onProgressInTry(s, LogEvent("classified-qa"))
            IN IF t.pc = "caught" THEN t
               ELSE [t EXCEPT !.qaPairs = @ \o items,
                              !.fileIdx = @ + 1, !.pc = "files"]
       ELSE LET t == onProgressInTry(s, LogEvent("classified-document"))
            IN IF t.pc = "caught" THEN t
               ELSE [t EXCEPT !.documents = Append(@, Item(s.fileIdx, 0)),
                              !.chunks = @ \o items,
                              !.fileIdx = @ + 1, !.pc = "files"]

\* Lines 184-199: classify the file just read and cache its content.
classifyFile(s, content) ==
    LET blocks == SplitBlocks(content)
        items == [k \in 1..Len(blocks) |-> Item(s.fileIdx, blocks[k])]
    IN IF qaRegexMatches(content) > QaThreshold
       THEN LET t == onProgressInTry(s, LogEvent("classified-qa"))
            IN IF t.pc = "caught" THEN t
               ELSE [t EXCEPT !.qaPairs = @ \o items,
                              !.fileIdx = @ + 1, !.pc = "files"]
       ELSE LET t == onProgressInTry(s, LogEvent("classified-document"))
            IN IF t.pc = "caught" THEN t
               ELSE [t EXCEPT !.documents = Append(@, Item(s.fileIdx, 0)),
                              !.chunks = @ \o items,
                              !.fileIdx = @ + 1, !.pc = "files"]

\* totalTasks with the comprehensive category counted per document.
totalTasksMutC1(s) ==
    Len(s.qaPairs) * s.config.qaCount
    + Len(s.chunks) * s.config.chunkCount
    + Len(s.documents) * s.config.documentCount
    + Len(s.documents) * s.config.comprehensiveCount

\* runTask, lines 216-221.
totalTasksOf(s) ==
    LET qaTaskTotal == Len(s.qaPairs) * s.config.qaCount
        chunkTaskTotal == Len(s.chunks) * s.config.chunkCount
        documentTaskTotal == Len(s.documents) * s.config.documentCount
        comprehensiveTaskTotal == s.config.comprehensiveCount
    IN qaTaskTotal + chunkTaskTotal + documentTaskTotal + comprehensiveTaskTotal

\* StepPlan without the check of a zero total.
StepPlanMutC2(s) ==
    LET t == onProgress(s, LogEvent("cache-complete"))
    IN IF t.pc = "caught" THEN t
       ELSE LET total == totalTasksOf(t)
                u == onProgress([t EXCEPT !.totalTasks = total],
                                LogEvent("total-computed"))
            IN IF u.pc = "caught" THEN u
               ELSE [u EXCEPT !.currentTask = 0, !.totalTokenUsage = 0,
                              !.allResults = <<>>, !.cat = 1, !.pc = "cat"]

\* Line 206 of classifyAndCacheKnowledgeContent, then runTask lines 215-230.
StepPlan(s) ==
    LET t == onProgress(s, LogEvent("cache-complete"))
    IN IF t.pc = "caught" THEN t
       ELSE LET total == totalTasksOf(t)
            IN IF total = 0
               THEN Throw([t EXCEPT !.totalTasks = total], ZeroTasksMsg)
               ELSE LET u == onProgress([t EXCEPT !.totalTasks = total],
                                        LogEvent("total-computed"))
                    IN IF u.pc = "caught" THEN u
                       ELSE [u EXCEPT !.currentTask = 0,
                                      !.totalTokenUsage = 0,
                                      !.allResults = <<>>,
                                      !.cat = 1, !.pc = "cat"]

\* StepCat advancing the counter of a skipped category by its item count only.
StepCatMutC11(s0, project) ==
    LET s == [s0 EXCEPT !.systemPrompts = Append(@, project[s0.cat])]
        len == Len(ContentArray(s))
    IN IF trim(SystemPrompt(s)) = ""
       THEN LET t == onProgress(s, LogEvent("skip-category"))
            IN IF t.pc = "caught" THEN t
               ELSE LET cur == t.currentTask + len
                        u == onProgress([t EXCEPT !.currentTask = cur],
                               SkipEvent(s.cat, cur, t.totalTasks))
                    IN IF u.pc = "caught" THEN u ELSE [u EXCEPT !.pc = "catEnd"]
       ELSE IF UserCount(s) = 0 \/ len = 0 THEN [s EXCEPT !.pc = "catEnd"]
       ELSE LET t == onProgress(s, LogEvent("start-category"))
            IN IF t.pc = "caught" THEN t
               ELSE [t EXCEPT !.loop = 1, !.pc = "loop"]

\* executeGenerationTask, lines 238-252: entry of a category.
StepCat(s0, project) ==
    LET s == [s0 EXCEPT !.systemPrompts = Append(@, project[s0.cat])]
        len == Len(ContentArray(s))
    IN IF trim(SystemPrompt(s)) = ""
       THEN LET t == onProgress(s, LogEvent("skip-category"))
            IN IF t.pc = "caught" THEN t
               ELSE LET cur == t.currentTask + len * UserCount(s)
                        u == onProgress([t EXCEPT !.currentTask = cur],
                               SkipEvent(s.cat, cur, t.totalTasks))
                    IN IF u.pc = "caught" THEN u ELSE [u EXCEPT !.pc = "catEnd"]
       ELSE IF UserCount(s) = 0 \/ len = 0 THEN [s EXCEPT !.pc = "catEnd"]
       ELSE LET t == onProgress(s, LogEvent("start-category"))
            IN IF t.pc = "caught" THEN t
               ELSE [t EXCEPT !.loop = 1, !.pc = "loop"]

\* Lines 254-259: head of the loop over rounds, up to `await mkdir(loopDir)`.
StepLoop(s) ==
    IF s.loop <= UserCount(s)
    THEN IF isCancelled(s) THEN Observe([s EXCEPT !.pc = "catEnd"])
         ELSE LET t == onProgress(s, LogEvent("round"))
              IN IF t.pc = "caught" THEN t ELSE [t EXCEPT !.pc = "mkdirLoop"]
    ELSE [s EXCEPT !.pc = "catEnd"]

\* Lines 263-306: head of the loop over items, up to the first handleChat of
\* safeModelCall.
StepItem(s) ==
    IF s.i < Len(ContentArray(s))
    THEN IF isCancelled(s) THEN Observe([s EXCEPT !.pc = "catEnd"])
         ELSE LET cur == s.currentTask + 1
                  t == onProgress(
                         [s EXCEPT !.currentTask = cur,
                                   !.started = Append(@,
                                       [id |-> cur, cat |-> s.cat,
                                        loop |-> s.loop, i |-> s.i,
                                        item |-> ContentArray(s)[s.i + 1],
                                        userMessage |-> UserMessage(s)]),
                                   !.inFlight = @ + 1],
                         UpdateEvent("task", cur, s.totalTasks))
              IN IF t.pc = "caught" THEN t
                 ELSE startChat([t EXCEPT !.attempt = 0, !.callTrace = <<>>])
    ELSE [s EXCEPT !.loop = @ + 1, !.pc = "loop"]

\* StepAfterCall reporting the tokens of the last call as the token usage.
StepAfterCallMutC24(s) ==
    LET w == s.workResult
        t == IF w.hasUsage
             THEN onProgress(
                    [s EXCEPT !.totalTokenUsage = @ + w.tokens],
                    Event("token_usage", "", 0, 0, w.tokens))
             ELSE s
        parsed == JSONparse(w.content)
    IN IF t.pc = "caught" THEN t
       ELSE IF w.success /\ w.content # ""
       THEN IF parsed.ok
            THEN [t EXCEPT !.generatedQuestion =
                              IF parsed.question # "" THEN parsed.question
                              ELSE MissingQuestion,
                           !.generatedAnswer =
                              IF parsed.answer # "" THEN parsed.answer
                              ELSE MissingAnswer,
                           !.pc = "appendLog"]
            ELSE [t EXCEPT !.generatedQuestion = ParseJsonFailed,
                           !.generatedAnswer = w.content,
                           !.pc = "appendLog"]
       ELSE [t EXCEPT !.generatedQuestion = GenerationFailed,
                      !.generatedAnswer =
                          IF w.error # "" THEN w.error ELSE NotAvailable,
                      !.pc = "appendLog"]

\* StepAfterCall rethrowing the error of a failed model call.
StepAfterCallMutC13(s) ==
    LET w == s.workResult
        t == IF w.hasUsage
             THEN onProgress(
                    [s EXCEPT !.totalTokenUsage = @ + w.tokens],
                    Event("token_usage", "", 0, 0, s.totalTokenUsage + w.tokens))
             ELSE s
        parsed == JSONparse(w.content)
    IN IF t.pc = "caught" THEN t
       ELSE IF w.success /\ w.content # ""
       THEN IF parsed.ok
            THEN [t EXCEPT !.generatedQuestion =
                              IF parsed.question # "" THEN parsed.question
                              ELSE MissingQuestion,
                           !.generatedAnswer =
                              IF parsed.answer # "" THEN parsed.answer
                              ELSE MissingAnswer,
                           !.pc = "appendLog"]
            ELSE [t EXCEPT !.generatedQuestion = ParseJsonFailed,
                           !.generatedAnswer = w.content,
                           !.pc = "appendLog"]
       ELSE Throw(t, w.error)

\* Lines 307-330: after safeModelCall returned, up to `await appendToLogFile`.
StepAfterCall(s) ==
    LET w == s.workResult
        t == IF w.hasUsage
             THEN onProgress(
                    [s EXCEPT !.totalTokenUsage = @ + w.tokens],
                    Event("token_usage", "", 0, 0, s.totalTokenUsage + w.tokens))
             ELSE s
        parsed == JSONparse(w.content)
    IN IF t.pc = "caught" THEN t
       ELSE IF w.success /\ w.content # ""
       THEN IF parsed.ok
            THEN [t EXCEPT !.generatedQuestion =
                              IF parsed.question # "" THEN parsed.question
                              ELSE MissingQuestion,
                           !.generatedAnswer =
                              IF parsed.answer # "" THEN parsed.answer
                              ELSE MissingAnswer,
                           !.pc = "appendLog"]
            ELSE [t EXCEPT !.generatedQuestion = ParseJsonFailed,
                           !.generatedAnswer = w.content,
                           !.pc = "appendLog"]
       ELSE [t EXCEPT !.generatedQuestion = GenerationFailed,
                      !.generatedAnswer =
                          IF w.error # "" THEN w.error ELSE NotAvailable,
                      !.pc = "appendLog"]

\* StepAfterLog recording every entry with the task type of the first category.
StepAfterLogMutC12(s) ==
    LET t == onProgress(s, Event("state_update", s.generatedQuestion,
                                 s.currentTask, 0, 0))
        resultEntry == [id |-> s.currentTask, taskType |-> TaskTypes[1],
                        question |-> s.generatedQuestion,
                        answer |-> s.generatedAnswer, score |-> DefaultScore]
    IN IF t.pc = "caught" THEN t
       ELSE [t EXCEPT !.allResults = Append(@, resultEntry),
                      !.pc = "writeFile"]

\* StepAfterLog sending the state_update without looking at the cancellation.
StepAfterLogMutC27(s) ==
    LET t == sendEvent(s, Event("state_update", s.generatedQuestion,
                                s.currentTask, 0, 0))
        resultEntry == [id |-> s.currentTask, taskType |-> TaskTypes[s.cat],
                        question |-> s.generatedQuestion,
                        answer |-> s.generatedAnswer, score |-> DefaultScore]
    IN [t EXCEPT !.allResults = Append(@, resultEntry), !.pc = "writeFile"]

\* StepAfterLog numbering the entries by their position in the list.
StepAfterLogMutC30(s) ==
    LET t == onProgress(s, Event("state_update", s.generatedQuestion,
                                 s.currentTask, 0, 0))
        resultEntry == [id |-> Len(s.allResults) + 1,
                        taskType |-> TaskTypes[s.cat],
                        question |-> s.generatedQuestion,
                        answer |-> s.generatedAnswer, score |-> DefaultScore]
    IN IF t.pc = "caught" THEN t
       ELSE [t EXCEPT !.allResults = Append(@, resultEntry),
                      !.pc = "writeFile"]

\* StepAfterLog putting the new entry in front of the list.
StepAfterLogMutC10(s) ==
    LET t == onProgress(s, Event("state_update", s.generatedQuestion,
                                 s.currentTask, 0, 0))
        resultEntry == [id |-> s.currentTask, taskType |-> TaskTypes[s.cat],
                        question |-> s.generatedQuestion,
                        answer |-> s.generatedAnswer, score |-> DefaultScore]
    IN IF t.pc = "caught" THEN t
       ELSE [t EXCEPT !.allResults = <<resultEntry>> \o @,
                      !.pc = "writeFile"]

\* Lines 331-341: after the log append, up to `await writeFile(results.json)`.
StepAfterLog(s) ==
    LET t == onProgress(s, Event("state_update", s.generatedQuestion,
                                 s.currentTask, 0, 0))
        resultEntry == [id |-> s.currentTask, taskType |-> TaskTypes[s.cat],
                        question |-> s.generatedQuestion,
                        answer |-> s.generatedAnswer, score |-> DefaultScore]
    IN IF t.pc = "caught" THEN t
       ELSE [t EXCEPT !.allResults = Append(@, resultEntry),
                      !.pc = "writeFile"]

\* StepCatEnd clearing the repeat count of the category it leaves.
StepCatEndMutC25(s) ==
    LET t == [s EXCEPT !.config.qaCount = IF s.cat = 1 THEN 0 ELSE @]
    IN IF t.cat = Len(TaskTypes) THEN [t EXCEPT !.pc = "returned"]
       ELSE IF isCancelled(t) THEN Observe([t EXCEPT !.pc = "returned"])
       ELSE [t EXCEPT !.cat = @ + 1, !.pc = "cat"]

\* StepCatEnd without the poll of lines 346, 348 and 350.
StepCatEndMutC14(s) ==
    IF s.cat = Len(TaskTypes) THEN [s EXCEPT !.pc = "returned"]
    ELSE [s EXCEPT !.cat = @ + 1, !.pc = "cat"]

\* runTask, lines 345-353: between two categories and after the last one.
StepCatEnd(s) ==
    IF s.cat = Len(TaskTypes) THEN [s EXCEPT !.pc = "returned"]
    ELSE IF isCancelled(s) THEN Observe([s EXCEPT !.pc = "returned"])
    ELSE [s EXCEPT !.cat = @ + 1, !.pc = "cat"]

\* controller.close() in the finally of POST: it throws when the consumer has
\* already cancelled the stream.
closeStream(s) ==
    IF s.consumerGone THEN [s EXCEPT !.closeThrew = TRUE, !.pc = "closed"]
    ELSE [s EXCEPT !.closes = @ + 1, !.pc = "closed"]

\* POST, lines 131-136 and the finally: runTask returned.
StepReturned(s) ==
    LET t == [s EXCEPT !.listener = FALSE]
    IN IF ~isCancelled(t)
       THEN closeStream(sendEvent(t, Event("done", "", 0, 0, 0)))
       ELSE closeStream(Observe(t))

\* StepCaught sending a log event after the error event.
StepCaughtMutC17(s) ==
    IF s.error = CancelMsg
    THEN closeStream(sendEvent(
             sendEvent(s, Event("error", CancelReport, 0, 0, 0)),
             LogEvent("stream-closing")))
    ELSE closeStream(sendEvent(s, Event("error",
             IF s.error # "" THEN s.error ELSE UnknownErrorMsg, 0, 0, 0)))

\* POST, lines 137-147: runTask threw.
StepCaught(s) ==
    IF s.error = CancelMsg
    THEN closeStream(sendEvent(s, Event("error", CancelReport, 0, 0, 0)))
    ELSE closeStream(sendEvent(s, Event("error",
             IF s.error # "" THEN s.error ELSE UnknownErrorMsg, 0, 0, 0)))

Step(s, project) ==
    CASE s.pc = "scan" -> StepScan(s)
      [] s.pc = "files" -> StepFiles(s)
      [] s.pc = "plan" -> StepPlan(s)
      [] s.pc = "cat" -> StepCat(s, project)
      [] s.pc = "loop" -> StepLoop(s)
      [] s.pc = "item" -> StepItem(s)
      [] s.pc = "afterCall" -> StepAfterCall(s)
      [] s.pc = "afterLog" -> StepAfterLog(s)
      [] s.pc = "catEnd" -> StepCatEnd(s)
      [] s.pc = "returned" -> StepReturned(s)
      [] s.pc = "caught" -> StepCaught(s)

\* Run the code of a run up to its next await, or to the end of the handler.
\* project: the system prompts of the request body.
RECURSIVE AdvanceWith(_, _)
AdvanceWith(s, project) ==
    IF s.pc \in AwaitPcs \cup {"closed", "idle"} THEN s
    ELSE AdvanceWith(Step(s, project), project)

\* The request bodies that agree with the prompts a run has read so far.
ProjectsOf(s) ==
    { project \in Projects :
        \A c \in 1..Len(s.systemPrompts) : project[c] = s.systemPrompts[c] }

\* A stretch of code that enters no category reads no prompt.
Advance(s) == AdvanceWith(s, [c \in 1..Len(TaskTypes) |-> ""])


\* ------------------------------------------------------------ safeModelCall
\* What safeModelCall returns for the response its last handleChat settled
\* with: lines 43-50 (content is a string), 52-55 (it is not, last attempt)
\* and 57-62 (handleChat threw, last attempt).
\* One turn of the retry loop of safeModelCall (lines 32-63), entered when the
\* handleChat of attempt s.attempt has settled with resp: either the call
\* returns its SafeCallResult (pc afterCall) or the next attempt starts with
\* its pause (pc delay).
\* SafeCallResult reporting the error of the first attempt.
SafeCallResultMutC32(s, resp) ==
    LET first == IF Len(s.callTrace) > 1
                 THEN [kind |-> s.callTrace[1].outcome,
                       content |-> s.callTrace[1].content]
                 ELSE [kind |-> resp.kind, content |-> resp.content]
    IN IF resp.kind = "content"
       THEN [success |-> TRUE, content |-> resp.content, hasUsage |-> TRUE,
             tokens |-> resp.tokens, error |-> ""]
       ELSE [success |-> FALSE, content |-> "", hasUsage |-> FALSE,
             tokens |-> 0,
             error |-> IF first.kind = "malformed" THEN UnexpectedFormatMsg
                       ELSE IF first.content # "" THEN first.content
                       ELSE CriticalErrorMsg]

SafeCallResult(s, resp) ==
    IF resp.kind = "content"
    THEN [success |-> TRUE, content |-> resp.content, hasUsage |-> TRUE,
          tokens |-> resp.tokens, error |-> ""]
    ELSE [success |-> FALSE, content |-> "", hasUsage |-> FALSE, tokens |-> 0,
          error |-> IF resp.kind = "malformed" THEN UnexpectedFormatMsg
                    ELSE IF resp.content # "" THEN resp.content
                    ELSE CriticalErrorMsg]

\* safeModelCall returning the failure at once when the response has no
\* textual content.
safeModelCallMutC28(s, resp) ==
    LET n == Len(s.callTrace)
        t == [s EXCEPT !.callTrace[n].outcome = resp.kind,
                       !.callTrace[n].content = resp.content]
        pause == [kind |-> "pause", ms |-> RetryDelayMs, outcome |-> "",
                  content |-> ""]
        retry == [t EXCEPT !.attempt = @ + 1, !.pc = "delay",
                           !.callTrace = Append(@, pause)]
    IN IF resp.kind = "content" \/ resp.kind = "malformed"
       THEN [t EXCEPT !.pc = "afterCall", !.workResult = SafeCallResult(s, resp)]
       ELSE IF s.attempt = retries
       THEN [t EXCEPT !.pc = "afterCall", !.workResult = SafeCallResult(s, resp)]
       ELSE retry

\* safeModelCall giving up one attempt early.
safeModelCallMutC4(s, resp) ==
    LET n == Len(s.callTrace)
        t == [s EXCEPT !.callTrace[n].outcome = resp.kind,
                       !.callTrace[n].content = resp.content]
        pause == [kind |-> "pause", ms |-> RetryDelayMs, outcome |-> "",
                  content |-> ""]
    IN IF resp.kind = "content" \/ s.attempt + 1 = retries
       THEN [t EXCEPT !.pc = "afterCall", !.workResult = SafeCallResult(s, resp)]
       ELSE [t EXCEPT !.attempt = @ + 1, !.pc = "delay",
                      !.callTrace = Append(@, pause)]

\* safeModelCall returning only from its last attempt.
safeModelCallMutC5(s, resp) ==
    LET n == Len(s.callTrace)
        t == [s EXCEPT !.callTrace[n].outcome = resp.kind,
                       !.callTrace[n].content = resp.content]
        pause == [kind |-> "pause", ms |-> RetryDelayMs, outcome |-> "",
                  content |-> ""]
    IN IF s.attempt = retries
       THEN [t EXCEPT !.pc = "afterCall", !.workResult = SafeCallResult(s, resp)]
       ELSE [t EXCEPT !.attempt = @ + 1, !.pc = "delay",
                      !.callTrace = Append(@, pause)]

safeModelCall(s, resp) ==
    LET n == Len(s.callTrace)
        t == [s EXCEPT !.callTrace[n].outcome = resp.kind,
                       !.callTrace[n].content = resp.content]
        pause == [kind |-> "pause", ms |-> RetryDelayMs, outcome |-> "",
                  content |-> ""]
        retry == [t EXCEPT !.attempt = @ + 1, !.pc = "delay",
                           !.callTrace = Append(@, pause)]
    IN IF resp.kind = "content"
       THEN [t EXCEPT !.pc = "afterCall", !.workResult = SafeCallResult(s, resp)]
       ELSE IF s.attempt = retries
       THEN [t EXCEPT !.pc = "afterCall", !.workResult = SafeCallResult(s, resp)]
       ELSE retry

\* ------------------------------------------------------------------ actions
\* The number of tasks a configuration asks for over the knowledge directory
\* (used to bound the configurations explored).
RECURSIVE TaskLoadOf(_, _, _)
TaskLoadOf(files, cfg, k) ==
    IF k > Len(files) THEN cfg.comprehensiveCount
    ELSE LET blocks == Len(SplitBlocks(files[k]))
         IN (IF qaRegexMatches(files[k]) > QaThreshold
             THEN blocks * cfg.qaCount
             ELSE blocks * cfg.chunkCount + cfg.documentCount)
            + TaskLoadOf(files, cfg, k + 1)

TaskLoad(cfg) == TaskLoadOf(knowledgeFiles, cfg, 1)

\* workBound bounds the work of a behaviour: the tasks the configurations of
\* its runs ask for, plus the chat completions that fail or answer something
\* else than the JSON asked for, plus its test-cases requests.  It is MaxWork
\* for a run alone, MaxSideWork beside the test-cases route and MaxRunsWork
\* for two runs.
\* A repeat count only ever multiplies the number of items of its category
\* and bounds the loop over them: for a category without items every count
\* gives the same run, and one count is explored.
HasItems(cfg) == TaskLoad(cfg) > 0
Explored(cfg) ==
    /\ TaskLoad(cfg) <= workBound
    /\ ~HasItems([NoTestConfig EXCEPT !.qaCount = 1]) => cfg.qaCount = MaxCount
    /\ ~HasItems([NoTestConfig EXCEPT !.chunkCount = 1]) => cfg.chunkCount = MaxCount
    /\ ~HasItems([NoTestConfig EXCEPT !.documentCount = 1])
          => cfg.documentCount = MaxCount

Started(r) == run[r].pc # "idle"
InFlight(r) == run[r].pc \notin {"idle", "closed"}

\* The work explored so far: the tasks asked of the runs started, their
\* anomalous chat completions, and the test-cases requests made.
RECURSIVE WorkOfRuns(_)
WorkOfRuns(R) ==
    IF R = {} THEN 0
    ELSE LET r == CHOOSE x \in R : TRUE
         IN (IF Started(r) THEN TaskLoad(run[r].config) + run[r].anomalies ELSE 0)
            + WorkOfRuns(R \ {r})

WorkDone == WorkOfRuns(Runs) + Cardinality({q \in Requests : crud[q].pc # "idle"})

\* POST /api/run-task, lines 93-110: a request with body cfg arrives; up to
\* `await mkdir(baseResultDir)`.
POST(r) ==
    /\ run[r].pc = "idle"
    /\ \A q \in Runs : q < r => Started(q)
    /\ \E cfg \in TestConfigs :
         /\ Explored(cfg)
         /\ WorkDone + TaskLoad(cfg) <= workBound
         /\ run' = [run EXCEPT ![r] =
                      [IdleRun EXCEPT !.pc = "mkdirBase", !.config = cfg,
                                      !.runTimestamp = getTimestamp(now)]]
    /\ UNCHANGED <<now, knowledgeFiles, fsVars, lastGet, crud, workBound, call, appStore>>

\* mkdir(baseResultDir) resolved: lines 112-123, then runTask up to readdir.
MkdirBaseDone(r) ==
    /\ run[r].pc = "mkdirBase"
    /\ baseDirs' = baseDirs \cup {run[r].runTimestamp}
    /\ LET s == sendEvent(run[r], LogEvent("result-dir-created"))
       IN run' = [run EXCEPT ![r] =
                    Advance([s EXCEPT !.listener = TRUE, !.pc = "scan"])]
    /\ UNCHANGED <<now, knowledgeFiles, loopDirs, resultsFile, lastGet, crud, workBound, call, appStore>>

\* readdir(knowledgeDir) settled: it listed the files (lines 176-183) or it
\* failed (the catch of line 201).
ReaddirDone(r) ==
    /\ run[r].pc = "readdir"
    /\ LET t == onProgressInTry(
                    [run[r] EXCEPT !.listing = Len(knowledgeFiles)],
                    LogEvent("files-found"))
           listed == IF t.pc = "caught" THEN {Advance(t)}
                     ELSE { AdvanceWith([t EXCEPT !.fileIdx = 1, !.pc = "files"],
                                        project) : project \in ProjectsOf(run[r]) }
           failed == Advance(Throw(run[r], KnowledgeDirMsg(ReadErrorMsg)))
       IN \E s \in listed \cup {failed} : run' = [run EXCEPT ![r] = s]
    /\ UNCHANGED <<now, knowledgeFiles, fsVars, lastGet, crud, workBound, call, appStore>>

\* readFile of one knowledge file settled: it read the file (lines 183-200)
\* or it failed (the catch of line 201).
ReadFileDone(r) ==
    /\ run[r].pc = "readFile"
    /\ LET read == { AdvanceWith(classifyFile(run[r],
                                      knowledgeFiles[run[r].fileIdx]), project) :
                        project \in ProjectsOf(run[r]) }
           failed == Advance(Throw(run[r], KnowledgeDirMsg(ReadErrorMsg)))
       IN \E s \in read \cup {failed} : run' = [run EXCEPT ![r] = s]
    /\ UNCHANGED <<now, knowledgeFiles, fsVars, lastGet, crud, workBound, call, appStore>>

\* mkdir(loopDir) resolved: lines 259-261.
MkdirLoopDone(r) ==
    /\ run[r].pc = "mkdirLoop"
    /\ loopDirs' = loopDirs \cup {<<run[r].runTimestamp, run[r].loop>>}
    /\ run' = [run EXCEPT ![r].pc = "ensureLog"]
    /\ UNCHANGED <<now, knowledgeFiles, baseDirs, resultsFile, lastGet, crud, workBound, call, appStore>>

\* ensureLogFileExists resolved: the loop over items starts.
EnsureLogDone(r) ==
    /\ run[r].pc = "ensureLog"
    /\ run' = [run EXCEPT ![r] = Advance([run[r] EXCEPT !.i = 0, !.pc = "item"])]
    /\ UNCHANGED <<now, knowledgeFiles, fsVars, lastGet, crud, workBound, call, appStore>>

\* handleChat settled with resp (anomalous responses within the work bound).
ChatDone(r) ==
    /\ run[r].pc = "chat"
    /\ \E resp \in Responses :
         /\ Anomalous(resp) => WorkDone < workBound
         /\ run' = [run EXCEPT ![r] =
                      Advance(safeModelCall(
                          [run[r] EXCEPT !.anomalies =
                              IF Anomalous(resp) THEN @ + 1 ELSE @],
                          resp))]
    /\ UNCHANGED <<now, knowledgeFiles, fsVars, lastGet, crud, workBound, call, appStore>>

\* handleChat settled with any of the responses of AnyResponses.
ChatDoneAnyContent(r) ==
    /\ run[r].pc = "chat"
    /\ \E resp \in AnyResponses :
         /\ Anomalous(resp) => WorkDone < workBound
         /\ run' = [run EXCEPT ![r] =
                      Advance(safeModelCall(
                          [run[r] EXCEPT !.anomalies =
                              IF Anomalous(resp) THEN @ + 1 ELSE @],
                          resp))]
    /\ UNCHANGED <<now, knowledgeFiles, fsVars, lastGet, crud, workBound, call, appStore>>

\* The pause before a retry elapsed (line 37): handleChat is called again.
DelayDone(r) ==
    /\ run[r].pc = "delay"
    /\ run' = [run EXCEPT ![r] = startChat(run[r])]
    /\ UNCHANGED <<now, knowledgeFiles, fsVars, lastGet, crud, workBound, call, appStore>>

\* appendToLogFile resolved (line 330).
AppendLogDone(r) ==
    /\ run[r].pc = "appendLog"
    /\ run' = [run EXCEPT ![r] = Advance([run[r] EXCEPT !.pc = "afterLog"])]
    /\ UNCHANGED <<now, knowledgeFiles, fsVars, lastGet, crud, workBound, call, appStore>>

\* writeFile(results.json) opens the file for writing, which truncates it.
WriteOpen(r) ==
    /\ run[r].pc = "writeFile"
    /\ resultsFile' = [resultsFile EXCEPT ![run[r].runTimestamp] =
                         writeFileOpen(@, <<"run", r>>)]
    /\ run' = [run EXCEPT ![r].pc = "writing"]
    /\ UNCHANGED <<now, knowledgeFiles, baseDirs, loopDirs, lastGet, crud, workBound, call, appStore>>

\* WriteDone writing the newest entry alone.
WriteDoneMutC6(r) ==
    /\ run[r].pc = "writing"
    /\ resultsFile' = [resultsFile EXCEPT ![run[r].runTimestamp] =
                         writeFileDone(@, <<"run", r>>,
                             <<run[r].allResults[Len(run[r].allResults)]>>)]
    /\ \E s \in { AdvanceWith([run[r] EXCEPT !.i = @ + 1, !.inFlight = @ - 1,
                                    !.persisted = Append(@, run[r].currentTask),
                                    !.pc = "item"], project) :
                      project \in ProjectsOf(run[r]) } :
         run' = [run EXCEPT ![r] = s]
    /\ UNCHANGED <<now, knowledgeFiles, baseDirs, loopDirs, lastGet, crud, workBound, call, appStore>>

\* writeFile(results.json) resolved (line 341): the file holds the text of
\* allResults as it was when writeFile was called; the next item starts.
WriteDone(r) ==
    /\ run[r].pc = "writing"
    /\ resultsFile' = [resultsFile EXCEPT ![run[r].runTimestamp] =
                         writeFileDone(@, <<"run", r>>, run[r].allResults)]
    /\ \E s \in { AdvanceWith([run[r] EXCEPT !.i = @ + 1, !.inFlight = @ - 1,
                                    !.persisted = Append(@, run[r].currentTask),
                                    !.pc = "item"], project) :
                      project \in ProjectsOf(run[r]) } :
         run' = [run EXCEPT ![r] = s]
    /\ UNCHANGED <<now, knowledgeFiles, baseDirs, loopDirs, lastGet, crud, workBound, call, appStore>>

\* The client aborts the request: request.signal.aborted becomes true and the
\* abort listener, if it is registered, sets isAborted.
Abort(r) ==
    /\ InFlight(r)
    /\ ~run[r].signalAborted
    /\ run' = [run EXCEPT ![r].signalAborted = TRUE,
                          ![r].isAborted = run[r].listener]
    /\ UNCHANGED <<now, knowledgeFiles, fsVars, lastGet, crud, workBound, call, appStore>>

\* The consumer cancels the response stream (cancel() of the stream, line 149).
ConsumerCancel(r) ==
    /\ InFlight(r)
    /\ ~run[r].consumerGone
    /\ run' = [run EXCEPT ![r].consumerGone = TRUE]
    /\ UNCHANGED <<now, knowledgeFiles, fsVars, lastGet, crud, workBound, call, appStore>>

\* The steps of the handler of one request.
EngineStep(r) ==
    \/ POST(r)
    \/ MkdirBaseDone(r)
    \/ ReaddirDone(r)
    \/ ReadFileDone(r)
    \/ MkdirLoopDone(r)
    \/ EnsureLogDone(r)
    \/ ChatDone(r)
    \/ DelayDone(r)
    \/ AppendLogDone(r)
    \/ WriteOpen(r)
    \/ WriteDone(r)

\* The steps of the handler of one request whose model answers with any
\* kind of content.
AnyContentStep(r) ==
    \/ POST(r)
    \/ MkdirBaseDone(r)
    \/ ReaddirDone(r)
    \/ ReadFileDone(r)
    \/ MkdirLoopDone(r)
    \/ EnsureLogDone(r)
    \/ ChatDoneAnyContent(r)
    \/ DelayDone(r)
    \/ AppendLogDone(r)
    \/ WriteOpen(r)
    \/ WriteDone(r)

\* The handler and the client of one request.
RunStep(r) == EngineStep(r) \/ Abort(r)

\* ------------------------------------------------------- test-cases route
\* GET /api/test-cases?timestamp=ts (lines 13-23): readFile and JSON.parse of
\* output/result/<ts>/results.json; whatever they throw gives 404.
\* completed: the entries the runs of that timestamp had completed when the
\* file was read (history, for the properties).
NoGet == [status |-> 0, timestamp |-> 0, body |-> <<>>, completed |-> <<>>]

GET ==
    \E ts \in Timestamps :
        /\ lastGet' =
             LET f == resultsFile[ts]
                 owners == {r \in Runs : Started(r) /\ run[r].runTimestamp = ts}
                 done == IF owners = {} THEN <<>>
                         ELSE LET r == CHOOSE x \in owners :
                                          \A y \in owners : x <= y
                              IN SubSeq(run[r].allResults, 1, Len(run[r].persisted))
             IN IF f.state = "complete"
                THEN [status |-> 200, timestamp |-> ts, body |-> f.entries,
                      completed |-> done]
                ELSE [status |-> 404, timestamp |-> ts, body |-> <<>>,
                      completed |-> done]
        /\ UNCHANGED <<now, knowledgeFiles, fsVars, run, crud, workBound, call, appStore>>

\* input: the entries the request read (history, for the properties).
IdleRequest == [pc |-> "idle", action |-> "", id |-> 0, timestamp |-> 0,
                input |-> <<>>, data |-> <<>>, status |-> 0]

CrudActions == {"add", "edit", "delete", "rename"}
CrudIds == 1..2

\* POST /api/test-cases with a timestamp in the body (lines 47-65): up to
\* `await fs.readFile(filePath)`.  The timestamp is one of the list the route
\* answers to a GET without timestamp: a directory of output/result.
CrudPost(q) ==
    /\ crud[q].pc = "idle"
    /\ \A p \in Requests : p < q => crud[p].pc # "idle"
    /\ WorkDone < workBound
    /\ \E action \in CrudActions, id \in CrudIds, ts \in baseDirs :
         crud' = [crud EXCEPT ![q] =
                    [IdleRequest EXCEPT !.pc = "read", !.action = action,
                                        !.id = id, !.timestamp = ts]]
    /\ UNCHANGED <<now, knowledgeFiles, fsVars, run, lastGet, workBound, call, appStore>>

\* Math.max(...questionsData.map(c => c.id), 0)
RECURSIVE MaxId(_)
MaxId(entries) ==
    IF entries = <<>> THEN 0
    ELSE LET m == MaxId(Tail(entries))
         IN IF Head(entries).id > m THEN Head(entries).id ELSE m

\* CrudApply numbering an added entry by the length of the list.
CrudApplyMutC35(req, questionsData) ==
    CASE req.action = "add" ->
           Append(questionsData,
                  [id |-> Len(questionsData) + 1, taskType |-> "",
                   question |-> "edited-question", answer |-> "edited-answer",
                   score |-> CrudDefaultScore])
      [] req.action = "edit" ->
           [k \in 1..Len(questionsData) |->
              IF questionsData[k].id = req.id
              THEN [questionsData[k] EXCEPT !.question = "edited-question",
                                            !.answer = "edited-answer",
                                            !.score = CrudDefaultScore]
              ELSE questionsData[k]]
      [] req.action = "delete" ->
           SelectSeq(questionsData, LAMBDA e : e.id # req.id)
      [] OTHER -> questionsData

\* The switch of lines 79-102 over the entries read (the request carries the
\* question "edited-question", the answer "edited-answer" and no score).
CrudApply(req, questionsData) ==
    CASE req.action = "add" ->
           Append(questionsData,
                  [id |-> MaxId(questionsData) + 1, taskType |-> "",
                   question |-> "edited-question", answer |-> "edited-answer",
                   score |-> CrudDefaultScore])
      [] req.action = "edit" ->
           [k \in 1..Len(questionsData) |->
              IF questionsData[k].id = req.id
              THEN [questionsData[k] EXCEPT !.question = "edited-question",
                                            !.answer = "edited-answer",
                                            !.score = CrudDefaultScore]
              ELSE questionsData[k]]
      [] req.action = "delete" ->
           SelectSeq(questionsData, LAMBDA e : e.id # req.id)
      [] OTHER -> questionsData

\* CrudReadDone letting an unknown action through to the rewrite of the file.
CrudReadDoneMutC37(q) ==
    /\ crud[q].pc = "read"
    /\ LET f == resultsFile[crud[q].timestamp]
           req == crud[q]
       IN crud' = [crud EXCEPT ![q] =
                     IF f.state # "complete"
                     THEN [req EXCEPT !.pc = "done", !.status = 500]
                     ELSE [req EXCEPT !.pc = "write", !.input = f.entries,
                                      !.data = CrudApply(req, f.entries)]]
    /\ UNCHANGED <<now, knowledgeFiles, fsVars, run, lastGet, workBound, call, appStore>>

\* readFile settled (lines 65-110): a file that is missing or does not parse
\* throws into the catch (500); an unknown action answers 400; otherwise the
\* new list is computed, up to `await fs.writeFile`.
CrudReadDone(q) ==
    /\ crud[q].pc = "read"
    /\ LET f == resultsFile[crud[q].timestamp]
           req == crud[q]
       IN crud' = [crud EXCEPT ![q] =
                     IF f.state # "complete"
                     THEN [req EXCEPT !.pc = "done", !.status = 500]
                     ELSE IF req.action \notin {"add", "edit", "delete"}
                     THEN [req EXCEPT !.pc = "done", !.status = 400]
                     ELSE [req EXCEPT !.pc = "write", !.input = f.entries,
                                      !.data = CrudApply(req, f.entries)]]
    /\ UNCHANGED <<now, knowledgeFiles, fsVars, run, lastGet, workBound, call, appStore>>

\* fs.writeFile of line 112 opens the file, truncating it.
CrudWriteOpen(q) ==
    /\ crud[q].pc = "write"
    /\ resultsFile' = [resultsFile EXCEPT ![crud[q].timestamp] =
                         writeFileOpen(@, <<"crud", q>>)]
    /\ crud' = [crud EXCEPT ![q].pc = "writing"]
    /\ UNCHANGED <<now, knowledgeFiles, baseDirs, loopDirs, run, lastGet, workBound, call, appStore>>

\* fs.writeFile resolved: lines 112-119.
CrudWriteDone(q) ==
    /\ crud[q].pc = "writing"
    /\ resultsFile' = [resultsFile EXCEPT ![crud[q].timestamp] =
                         writeFileDone(@, <<"crud", q>>, crud[q].data)]
    /\ crud' = [crud EXCEPT ![q].pc = "done", ![q].status = 200]
    /\ UNCHANGED <<now, knowledgeFiles, baseDirs, loopDirs, run, lastGet, workBound, call, appStore>>

CrudStep(q) ==
    \/ CrudPost(q)
    \/ CrudReadDone(q)
    \/ CrudWriteOpen(q)
    \/ CrudWriteDone(q)

\* A request to the route while no other request is in flight; an add is
\* explored while the ids of the file are below MaxCrudId.
CrudRequest(q) ==
    /\ CrudPost(q)
    /\ crud'[q].action = "add" =>
          MaxId(resultsFile[crud'[q].timestamp].entries) < MaxCrudId

\* The handler returned its response (lines 101, 116-118, 122): the route is
\* free for the next request.
CrudRespond(q) ==
    /\ crud[q].pc = "done"
    /\ crud' = [crud EXCEPT ![q] = IdleRequest]
    /\ UNCHANGED <<now, knowledgeFiles, fsVars, run, lastGet, workBound, call, appStore>>

\* The requests of one client that waits for each response before its next
\* request.
CrudSeqStep(q) ==
    \/ CrudRequest(q)
    \/ CrudReadDone(q)
    \/ CrudWriteOpen(q)
    \/ CrudWriteDone(q)
    \/ CrudRespond(q)

\* The results.json files the route is started on: lists of entries with
\* pairwise distinct ids (in any order, with gaps), a directory without a
\* results.json, and a file that is not valid JSON.
StoredEntry(id) ==
    [id |-> id, taskType |-> "QA", question |-> "question-text",
     answer |-> "answer-text", score |-> DefaultScore]

StoredIdLists == { <<>>, <<1>>, <<2, 1>>, <<1, 3>>, <<-1, 2>> }

StoredFiles ==
    { [state |-> "complete",
       entries |-> [k \in 1..Len(ids) |-> StoredEntry(ids[k])],
       writer |-> <<"none", 0>>] : ids \in StoredIdLists }
    \cup { AbsentFile,
           [state |-> "garbled", entries |-> <<>>, writer |-> <<"none", 0>>] }

\* ------------------------------------------------------ VercelAIProvider
\* One call of generateNonStreaming or generateStreaming: where it is
\* suspended, its timeout timer, its AbortController, the time since it
\* started; calls counts the calls made, leaked the timers still armed when
\* the next call started.
IdleCall ==
    [ pc |-> "idle", mode |-> "none", logPath |-> FALSE, timer |-> "none",
      aborted |-> FALSE, elapsedMs |-> 0, calls |-> 0, leaked |-> 0 ]

Modes == {"nonStreaming", "streaming"}

clearTimeout(c) == IF c.timer = "armed" THEN "cleared" ELSE c.timer

\* The call leaves by an exception: the finally of generateNonStreaming
\* (line 193) and the catch of generateStreaming (lines 268-270) clear the
\* timer.
ExitThrow(c) == [c EXCEPT !.pc = "threw", !.timer = clearTimeout(c)]

\* generateNonStreaming / generateStreaming is called (lines 158-175,
\* 205-223): a new AbortController, the timer armed with options.timeoutMs,
\* then the request is logged when a log path was given.
GenerateStart ==
    /\ call.pc \in {"idle", "returned", "threw"}
    /\ call.calls <= retries
    /\ \E mode \in Modes, logPath \in BOOLEAN :
         call' = [ pc |-> IF logPath THEN "log" ELSE "sdk",
                   mode |-> mode, logPath |-> logPath, timer |-> "armed",
                   aborted |-> FALSE, elapsedMs |-> 0,
                   calls |-> call.calls + 1,
                   leaked |-> call.leaked
                              + (IF call.timer = "armed" THEN 1 ELSE 0) ]
    /\ UNCHANGED <<now, knowledgeFiles, fsVars, run, lastGet, crud, workBound, appStore>>

\* appendToLogFile of the request settled (lines 174, 222).
ProviderLogDone ==
    /\ call.pc = "log"
    /\ \/ call' = [call EXCEPT !.pc = "sdk"]
       \/ call' = ExitThrow(call)
    /\ UNCHANGED <<now, knowledgeFiles, fsVars, run, lastGet, crud, workBound, appStore>>

\* generateText / streamText settled (lines 179-191, 227-267). It rejects
\* when its signal is aborted. generateNonStreaming goes on to adapt the
\* result; generateStreaming returns the stream, the timer left as it is.
SdkSettles ==
    /\ call.pc = "sdk"
    /\ \/ /\ ~call.aborted
          /\ call' = IF call.mode = "nonStreaming"
                     THEN [call EXCEPT !.pc = "adapt"]
                     ELSE [call EXCEPT !.pc = "returned"]
       \/ call' = ExitThrow(call)
    /\ UNCHANGED <<now, knowledgeFiles, fsVars, run, lastGet, crud, workBound, appStore>>

\* adaptVercelResponse settled (lines 95-126, 189-193): the result is
\* returned, or its appendToLogFile rejected; the finally clears the timer.
AdaptDone ==
    /\ call.pc = "adapt"
    /\ \/ call' = [call EXCEPT !.pc = "returned", !.timer = clearTimeout(call)]
       \/ call' = ExitThrow(call)
    /\ UNCHANGED <<now, knowledgeFiles, fsVars, run, lastGet, crud, workBound, appStore>>

\* The timer of lines 159 / 206 fires: controller.abort().
TimerFires ==
    /\ call.timer = "armed"
    /\ call.elapsedMs >= timeoutMs
    /\ call' = [call EXCEPT !.timer = "fired", !.aborted = TRUE]
    /\ UNCHANGED <<now, knowledgeFiles, fsVars, run, lastGet, crud, workBound, appStore>>

\* Time passes while a timer is armed.
CallTick ==
    /\ call.timer = "armed"
    /\ call.elapsedMs < MaxClock * timeoutMs
    /\ call' = [call EXCEPT !.elapsedMs = @ + timeoutMs \div 2]
    /\ UNCHANGED <<now, knowledgeFiles, fsVars, run, lastGet, crud, workBound, appStore>>

\* -------------------------------------------------------------- useAppStore
\* The question counts of runResultsConfig, the only part of the store the
\* properties read; item is the entry 'fta-app-storage' of localStorage as
\* the persist middleware writes it: the partialized state and its version.
\* lastSet and rehydrated are history: the last count set, and whether the
\* store was rehydrated since.
DefaultCounts ==
    [qaQuestionCount |-> 3, chunkQuestionCount |-> 3,
     documentQuestionCount |-> 5, comprehensiveQuestionCount |-> 30]

CountFields == DOMAIN DefaultCounts

StorageVersion == 1

NoItem == [version |-> -1, state |-> DefaultCounts]

\* An item written by the application before its storage version was 1.
LegacyItem == [version |-> 0, state |-> [f \in CountFields |-> 1]]

NoSet == [field |-> "", count |-> 0]

FreshStore ==
    [runResultsConfig |-> DefaultCounts, item |-> NoItem, lastSet |-> NoSet,
     rehydrated |-> FALSE]

\* partialize (lines 358-374): the four counts of runResultsConfig.
partialize(runResultsConfig) ==
    [f \in CountFields |-> runResultsConfig[f]]

\* migrate (lines 390-406).
migrate(persistedState, version) ==
    IF version = 0 THEN DefaultCounts ELSE persistedState

\* The callback onRehydrateStorage returns (lines 376-386): it assigns the
\* four counts of the state it is given.
onRehydrateStorage(runResultsConfig) ==
    [runResultsConfig EXCEPT !.qaQuestionCount = 3,
                             !.chunkQuestionCount = 3,
                             !.documentQuestionCount = 5,
                             !.comprehensiveQuestionCount = 30]

\* setQaQuestionCount and its three siblings (lines 307-317): the store is
\* updated and the middleware writes the partialized state to localStorage.
setQuestionCount ==
    \E f \in CountFields, count \in Counts :
        /\ appStore' =
             LET cfg == [appStore.runResultsConfig EXCEPT ![f] = count]
             IN [runResultsConfig |-> cfg,
                 item |-> [version |-> StorageVersion, state |-> partialize(cfg)],
                 lastSet |-> [field |-> f, count |-> count],
                 rehydrated |-> FALSE]
        /\ UNCHANGED <<now, knowledgeFiles, fsVars, run, lastGet, crud, workBound, call>>

\* The page is loaded again: the store is created with its defaults and the
\* middleware rehydrates it: it reads the item, migrates it when its version
\* differs, merges it into the state, writes the item back, and then calls
\* the callback of onRehydrateStorage with the state, whose runResultsConfig
\* is the object the store holds.
Rehydrate ==
    /\ appStore' =
         LET item == appStore.item
             migrated == IF item = NoItem THEN DefaultCounts
                         ELSE IF item.version # StorageVersion
                         THEN migrate(item.state, item.version)
                         ELSE item.state
         IN [appStore EXCEPT
               !.runResultsConfig = onRehydrateStorage(migrated),
               !.item = [version |-> StorageVersion,
                         state |-> partialize(migrated)],
               !.rehydrated = TRUE]
    /\ UNCHANGED <<now, knowledgeFiles, fsVars, run, lastGet, crud, workBound, call>>

\* The wall clock advances (it is read when a request arrives, line 108).
Tick ==
    /\ now < MaxClock
    /\ \E r \in Runs : run[r].pc = "idle"
    /\ now' = now + 1
    /\ UNCHANGED <<knowledgeFiles, fsVars, run, lastGet, crud, workBound, call, appStore>>

InitWith(bound) ==
    /\ workBound = bound
    /\ now = 0
    /\ knowledgeFiles \in Corpora
    /\ baseDirs = {}
    /\ loopDirs = {}
    /\ resultsFile = [ts \in Timestamps |-> AbsentFile]
    /\ run = [r \in Runs |-> IdleRun]
    /\ lastGet = NoGet
    /\ crud = [q \in Requests |-> IdleRequest]
    /\ call = IdleCall
    /\ appStore = FreshStore

Init == InitWith(MaxWork)

InitSide == InitWith(MaxSideWork)

\* Two runs over a knowledge directory of one file.
InitRuns == InitWith(MaxRunsWork) /\ Len(knowledgeFiles) = 1

\* One run.
Next == RunStep(1)

Spec == Init /\ [][Next]_vars

\* One run and a reader of its results.json.
NextReader == RunStep(1) \/ GET

SpecReader == InitSide /\ [][NextReader]_vars

\* One run and test-cases requests.
NextStore == RunStep(1) \/ CrudStep(1) \/ CrudStep(2)

SpecStore == InitSide /\ [][NextStore]_vars

\* Two runs while the clock advances.
NextRuns == EngineStep(1) \/ EngineStep(2) \/ Tick

SpecRuns == InitRuns /\ [][NextRuns]_vars

\* One run-task request whose client may abort it and whose consumer may
\* cancel the response stream.
NextStream == RunStep(1) \/ ConsumerCancel(1)

SpecStream == InitSide /\ [][NextStream]_vars

\* One run-task request whose model answers with any kind of content.
NextAnyContent == AnyContentStep(1) \/ Abort(1)

SpecAnyContent == InitSide /\ [][NextAnyContent]_vars

\* The test-cases route alone, over one stored results.json.
InitCrud ==
    /\ workBound = MaxSideWork
    /\ now = 0
    /\ knowledgeFiles = <<>>
    /\ baseDirs = {0}
    /\ loopDirs = {}
    /\ \E f \in StoredFiles :
          resultsFile = [ts \in Timestamps |-> IF ts = 0 THEN f ELSE AbsentFile]
    /\ run = [r \in Runs |-> IdleRun]
    /\ lastGet = NoGet
    /\ crud = [q \in Requests |-> IdleRequest]
    /\ call = IdleCall
    /\ appStore = FreshStore

\* Requests made one after the other.
NextCrudSeq == CrudSeqStep(1)

SpecCrudSeq == InitCrud /\ [][NextCrudSeq]_vars

\* Two requests to the route that may overlap.
NextCrud == CrudStep(1) \/ CrudStep(2)

SpecCrud == InitCrud /\ [][NextCrud]_vars

\* The application store alone, on a browser with no stored item or with
\* the item of an earlier version.
InitAppStore ==
    /\ workBound = 0
    /\ now = 0
    /\ knowledgeFiles = <<>>
    /\ baseDirs = {}
    /\ loopDirs = {}
    /\ resultsFile = [ts \in Timestamps |-> AbsentFile]
    /\ run = [r \in Runs |-> IdleRun]
    /\ lastGet = NoGet
    /\ crud = [q \in Requests |-> IdleRequest]
    /\ call = IdleCall
    /\ appStore \in {FreshStore, [FreshStore EXCEPT !.item = LegacyItem]}

NextAppStore == setQuestionCount \/ Rehydrate

SpecAppStore == InitAppStore /\ [][NextAppStore]_vars

\* The calls of the provider alone.
InitProvider == InitWith(0) /\ knowledgeFiles = <<>>

NextProvider ==
    \/ GenerateStart
    \/ ProviderLogDone
    \/ SdkSettles
    \/ AdaptDone
    \/ TimerFires
    \/ CallTick

SpecProvider == InitProvider /\ [][NextProvider]_vars

\* =============================================================== properties
FileOf(r) == resultsFile[run[r].runTimestamp]

EntryIds(entries) == [k \in 1..Len(entries) |-> entries[k].id]

EventsOfType(s, type) == SelectSeq(s.events, LAMBDA e : e.type = type)

UpdateEvents(s) == EventsOfType(s, "update")

TaskEvents(s) == SelectSeq(s.events, LAMBDA e : e.type = "update" /\ e.tag = "task")

\* progress = (currentTask / totalTasks) * 100, compared as a rational.
ProgressLeq(e1, e2) ==
    e1.currentTask * e2.totalTasks <= e2.currentTask * e1.totalTasks

AttemptsOf(tr) == SelectSeq(tr, LAMBDA x : x.kind = "attempt")
PausesOf(tr) == SelectSeq(tr, LAMBDA x : x.kind = "pause")

\* safeModelCall has returned for the call whose trace the run holds.
CallReturned(s) == s.callTrace # <<>> /\ s.pc \notin {"chat", "delay"}

\* ------------------------------------------------------------------- C1
TotalIsSum ==
    \A r \in Runs :
        LET s == run[r]
        IN s.totalTasks # -1 =>
             /\ s.totalTasks = Len(s.qaPairs) * s.config.qaCount
                                + Len(s.chunks) * s.config.chunkCount
                                + Len(s.documents) * s.config.documentCount
                                + s.config.comprehensiveCount
             /\ s.totalTasks = TaskLoad(s.config)

TotalIsFixed ==
    \A r \in Runs :
        run[r].totalTasks # -1 => run'[r].totalTasks = run[r].totalTasks

\* C1: for every run configuration and every classified corpus the totalTasks
\* computed by runTask is |qaPairs|*qaCount + |chunks|*chunkCount +
\* |documents|*documentCount + comprehensiveCount, and once computed it never
\* changes.
C1_TotalTasks == []TotalIsSum /\ [][TotalIsFixed]_vars

C1_Witness ==
    \E r \in Runs :
        LET s == run[r]
        IN /\ s.totalTasks = 5 /\ s.currentTask = 5 /\ s.pc = "closed"
           /\ Len(s.qaPairs) = 1 /\ Len(s.chunks) = 2 /\ Len(s.documents) = 1
           /\ s.config = [qaCount |-> 1, chunkCount |-> 1, documentCount |-> 1,
                          comprehensiveCount |-> 1]

\* ------------------------------------------------------------------- C2
\* C2: when totalTasks is 0 the run fails before any task executes: no model
\* invocation, no per-loop directory and no results.json (only the base run
\* directory exists), exactly one error event and no done event on the stream.
C2_ZeroTotalFails ==
    \A r \in Runs :
        LET s == run[r]
        IN s.totalTasks = 0 =>
             /\ s.pc = "closed"
             /\ s.invocations = 0 /\ s.started = <<>> /\ s.currentTask = 0
             /\ s.runTimestamp \in baseDirs
             /\ \A l \in 1..MaxCount : <<s.runTimestamp, l>> \notin loopDirs
             /\ FileOf(r).state = "absent"
             /\ Len(EventsOfType(s, "error")) = 1
             /\ EventsOfType(s, "error")[1].tag = ZeroTasksMsg
             /\ EventsOfType(s, "done") = <<>>
             /\ s.closes = 1

C2_Witness ==
    \E r \in Runs :
        /\ run[r].totalTasks = 0 /\ run[r].pc = "closed"
        /\ run[r].config.comprehensiveCount = 0
        /\ run[r].config.qaCount > 0
        /\ run[r].runTimestamp \in baseDirs

\* ------------------------------------------------------------------- C3
ProgressBounded ==
    \A r \in Runs :
        LET s == run[r]
            U == UpdateEvents(s)
        IN /\ s.totalTasks # -1 => s.currentTask <= s.totalTasks
           /\ s.currentTask >= 0
           /\ \A k \in 1..Len(U) :
                 /\ U[k].totalTasks = s.totalTasks /\ U[k].totalTasks > 0
                 /\ U[k].currentTask * 100 <= 100 * U[k].totalTasks
                 /\ k > 1 => ProgressLeq(U[k - 1], U[k])

CompletedNeverDecreases ==
    \A r \in Runs : run'[r].currentTask >= run[r].currentTask

\* C3: completedTasks (currentTask) never decreases and is at most totalTasks,
\* and the progress of successive update events never decreases and never
\* exceeds 100, skipped categories included.
C3_ProgressMonotone == []ProgressBounded /\ [][CompletedNeverDecreases]_vars

C3_Witness ==
    \E r \in Runs :
        LET s == run[r]
            U == UpdateEvents(s)
        IN /\ s.pc = "closed" /\ s.currentTask = s.totalTasks
           /\ Len(U) >= 3
           /\ U[1].tag = "skip" /\ U[1].currentTask > 0
           /\ U[2].tag = "task"
           /\ U[Len(U)].tag = "skip" /\ U[Len(U)].currentTask = s.totalTasks

\* ------------------------------------------------------------------- C4
\* C4: safeModelCall makes at most retries+1 attempts per task; a call whose
\* every attempt fails makes exactly 3 attempts (retries = 2), with one pause
\* of 2000 ms before the 2nd and one before the 3rd attempt, none before the
\* 1st and none after the last.
C4_BoundedAttempts ==
    \A r \in Runs :
        LET s == run[r]
            tr == s.callTrace
        IN /\ \A k \in 1..Len(tr) :
                 IF k % 2 = 1 THEN tr[k].kind = "attempt"
                 ELSE tr[k].kind = "pause" /\ tr[k].ms = RetryDelayMs
           /\ Len(AttemptsOf(tr)) <= retries + 1
           /\ CallReturned(s) => tr[Len(tr)].kind = "attempt"
           /\ (CallReturned(s) /\ ~s.workResult.success) =>
                 /\ Len(AttemptsOf(tr)) = 3
                 /\ Len(PausesOf(tr)) = 2
                 /\ \A k \in 1..Len(tr) : tr[k].kind = "attempt" =>
                                              tr[k].outcome \in {"throw", "malformed"}

C4_Witness ==
    \E r \in Runs :
        LET s == run[r]
        IN /\ s.pc = "appendLog" /\ ~s.workResult.success
           /\ Len(s.callTrace) = 5
           /\ s.callTrace[1].outcome = "throw"
           /\ s.callTrace[3].outcome = "malformed"
           /\ s.callTrace[5].outcome = "throw"
           /\ s.invocations = 3

\* ------------------------------------------------------------------- C5
ThrowThrowSuccess(tr) ==
    /\ Len(tr) = 5
    /\ tr[1].kind = "attempt" /\ tr[1].outcome = "throw"
    /\ tr[3].kind = "attempt" /\ tr[3].outcome = "throw"
    /\ tr[5].kind = "attempt" /\ tr[5].outcome = "content"

\* C5: a call that throws on attempts 1 and 2 and succeeds on attempt 3
\* returns success = true with the content of the third attempt, after two
\* retry delays; no attempt follows the first successful one.
C5_SuccessOnThird ==
    \A r \in Runs :
        LET s == run[r]
            tr == s.callTrace
        IN /\ (CallReturned(s) /\ ThrowThrowSuccess(tr)) =>
                 /\ s.workResult.success
                 /\ s.workResult.content = tr[5].content
                 /\ tr[2].kind = "pause" /\ tr[2].ms = RetryDelayMs
                 /\ tr[4].kind = "pause" /\ tr[4].ms = RetryDelayMs
           /\ \A k \in 1..Len(tr) : tr[k].outcome = "content" =>
                 /\ k = Len(tr)
                 /\ s.pc \notin {"chat", "delay"}
                 /\ s.workResult.success /\ s.workResult.content = tr[k].content

C5_Witness ==
    \E r \in Runs :
        LET s == run[r]
        IN /\ s.pc = "appendLog" /\ ThrowThrowSuccess(s.callTrace)
           /\ s.workResult.success /\ s.workResult.content = QaJson
           /\ s.invocations = 3

\* ------------------------------------------------------------------- C6
\* The entries of tasks whose writeFile resolved, in task order.
CompletedEntries(s) == SubSeq(s.allResults, 1, Len(s.persisted))

CancelLeavesCompleted ==
    \A r \in Runs :
        LET s == run[r]
            f == FileOf(r)
        IN Started(r) =>
             /\ f.state = "partial" => s.pc = "writing"
             /\ f.state = "absent" => s.persisted = <<>>
             /\ f.state = "complete" =>
                   /\ EntryIds(f.entries) = s.persisted
                   /\ f.entries = CompletedEntries(s)
                   /\ \A k \in 2..Len(f.entries) :
                         f.entries[k - 1].id < f.entries[k].id
             /\ s.observed => s.pc = "closed" /\ f.state # "partial"

ObservedFreezesFile ==
    \A r \in Runs : run[r].observed => resultsFile' = resultsFile

\* C6: when a run is cancelled, at whatever point, the results.json it leaves
\* holds only the entries of the tasks that had completed before the engine
\* observed the cancellation, in task order; it is valid JSON whenever the
\* engine is not inside a writeFile, before and after the cancellation.
C6_CancelKeepsCompleted == []CancelLeavesCompleted /\ [][ObservedFreezesFile]_vars

C6_Witness ==
    \E r \in Runs :
        LET s == run[r]
        IN /\ s.observed /\ s.signalAborted /\ s.pc = "closed"
           /\ Len(s.persisted) = 2 /\ Len(s.started) = 3
           /\ FileOf(r).state = "complete" /\ Len(FileOf(r).entries) = 2

\* ------------------------------------------------------------------- C7
\* C7: a concurrent reader of the run's results.json (the test-cases GET)
\* always gets valid JSON holding exactly the entries completed so far, never
\* a missing, truncated or partly written list; stated for the reads made
\* once the run has completed a task.
C7_ReaderSeesCompleted ==
    (lastGet.status # 0 /\ lastGet.completed # <<>>) =>
        /\ lastGet.status = 200
        /\ lastGet.body = lastGet.completed

\* ------------------------------------------------------------------- C8
\* The request has created (or found) its base directory.
HasBaseDir(r) == run[r].pc \notin {"idle", "mkdirBase"}

\* C8: two runs started in the same process, the same second included, never
\* share a base result directory.
C8_ExclusiveDirs ==
    \A r1, r2 \in Runs :
        (r1 # r2 /\ HasBaseDir(r1) /\ HasBaseDir(r2)) =>
            run[r1].runTimestamp # run[r2].runTimestamp

\* ------------------------------------------------------------------- C9
\* C9: while a run is in flight nothing but its own engine writes its
\* results.json, so the file always holds the engine's last rewrite.
C9_SingleWriter ==
    \A r \in Runs :
        InFlight(r) =>
            /\ FileOf(r).writer \in {<<"none", 0>>, <<"run", r>>}
            /\ FileOf(r).state = "complete" =>
                  FileOf(r).entries = CompletedEntries(run[r])

\* ------------------------------------------------------------------ C10
\* The order of the nested loops: category, then round, then item.
AttemptedBefore(a, b) ==
    \/ a.cat < b.cat
    \/ a.cat = b.cat /\ a.loop < b.loop
    \/ a.cat = b.cat /\ a.loop = b.loop /\ a.i < b.i

\* C10: tasks are attempted in the order QA, Chunk, Document, Comprehensive,
\* within a category by round and then by item; the entries of results.json
\* and the per-task events are in the order the tasks were attempted; at most
\* one task is in flight.
C10_TaskOrder ==
    \A r \in Runs :
        LET s == run[r]
            st == s.started
            f == FileOf(r)
            T == TaskEvents(s)
            D == EventsOfType(s, "state_update")
        IN /\ \A k \in 2..Len(st) :
                 /\ AttemptedBefore(st[k - 1], st[k])
                 /\ st[k - 1].id < st[k].id
           /\ Len(s.allResults) <= Len(st)
           /\ \A k \in 1..Len(s.allResults) :
                 /\ s.allResults[k].id = st[k].id
                 /\ s.allResults[k].taskType = TaskTypes[st[k].cat]
           /\ Started(r) /\ f.state = "complete" =>
                 /\ Len(f.entries) <= Len(s.allResults)
                 /\ f.entries = SubSeq(s.allResults, 1, Len(f.entries))
           /\ Len(T) <= Len(st)
           /\ \A k \in 1..Len(T) : T[k].currentTask = st[k].id
           /\ Len(D) <= Len(st)
           /\ \A k \in 1..Len(D) : D[k].currentTask = st[k].id
           /\ Len(st) - Len(s.persisted) \in {0, 1}
           /\ s.inFlight = Len(st) - Len(s.persisted)
           /\ s.inFlight <= 1
           /\ s.pc \in {"chat", "delay", "appendLog", "writeFile", "writing"}
                 => s.inFlight = 1

C10_Witness ==
    \E r \in Runs :
        LET s == run[r]
            st == s.started
        IN /\ s.pc = "closed" /\ ~s.signalAborted
           /\ Len(st) = 5 /\ Len(FileOf(r).entries) = 5
           /\ st[1].cat = 2 /\ st[1].loop = 1 /\ st[1].i = 0
           /\ st[2].cat = 2 /\ st[2].loop = 1 /\ st[2].i = 1
           /\ st[3].cat = 2 /\ st[3].loop = 2 /\ st[3].i = 0
           /\ st[4].cat = 2 /\ st[4].loop = 2 /\ st[4].i = 1
           /\ st[5].cat = 4
           /\ FileOf(r).entries[5].taskType = "Comprehensive"

\* ------------------------------------------------------------------ C11
\* The full task count of a category: item count times repeat count (the
\* Comprehensive category has comprehensiveCount items, each done once).
CategoryTotal(s, c) ==
    CASE c = 1 -> Len(s.qaPairs) * s.config.qaCount
      [] c = 2 -> Len(s.chunks) * s.config.chunkCount
      [] c = 3 -> Len(s.documents) * s.config.documentCount
      [] OTHER -> s.config.comprehensiveCount

\* The value of the counter carried by the update event before the k-th.
CounterBefore(U, k) == IF k = 1 THEN 0 ELSE U[k - 1].currentTask

\* C11: a category whose system prompt is blank is skipped as a whole: no
\* task of it is started (no model invocation, no ResultEntry), the counter
\* of completed tasks advances by exactly item count times repeat count, and
\* exactly one update event is emitted for the skip.
C11_BlankPromptSkips ==
    \A r \in Runs :
        LET s == run[r]
            U == UpdateEvents(s)
            SkipsOf(c) == { k \in 1..Len(U) : U[k].tag = "skip" /\ U[k].value = c }
        IN /\ \A c \in 1..Len(s.systemPrompts) :
                 trim(s.systemPrompts[c]) = "" =>
                     /\ \A k \in 1..Len(s.started) : s.started[k].cat # c
                     /\ \A k \in 1..Len(s.allResults) :
                           s.allResults[k].taskType # TaskTypes[c]
                     /\ Cardinality(SkipsOf(c)) <= 1
                     /\ SkipsOf(c) = {} =>
                           /\ c = Len(s.systemPrompts)
                           /\ s.pc = "closed" /\ s.error = CancelMsg
           /\ \A k \in 1..Len(U) :
                 U[k].tag = "skip" =>
                     /\ U[k].value \in 1..Len(s.systemPrompts)
                     /\ trim(s.systemPrompts[U[k].value]) = ""
                     /\ U[k].currentTask
                          = CounterBefore(U, k) + CategoryTotal(s, U[k].value)
           /\ (s.started = <<>> /\ s.pc # "chat") => s.invocations = 0

C11_Witness ==
    \E r \in Runs :
        LET s == run[r]
            U == UpdateEvents(s)
        IN /\ s.pc = "closed" /\ ~s.signalAborted
           /\ Len(s.systemPrompts) = 4
           /\ s.systemPrompts[1] = " " /\ Len(s.qaPairs) = 1
           /\ s.config.qaCount = 2
           /\ Len(U) = 1 /\ U[1].tag = "skip" /\ U[1].value = 1
           /\ U[1].currentTask = 2 /\ s.totalTasks = 2 /\ s.currentTask = 2
           /\ s.invocations = 0 /\ s.allResults = <<>>
           /\ EventsOfType(s, "done") # <<>>

\* ------------------------------------------------------------------- C12
\* The client never aborted the request.
NeverCancelled(s) == ~s.signalAborted /\ ~s.isAborted

\* Every category the run entered with a non-zero task count has a non-blank
\* system prompt.
PromptsCoverTasks(s) ==
    \A c \in 1..Len(s.systemPrompts) :
        CategoryTotal(s, c) > 0 => trim(s.systemPrompts[c]) # ""

EntriesOfType(entries, type) == SelectSeq(entries, LAMBDA x : x.taskType = type)

\* The run ended with `done`, all its tasks counted and recorded.
EndedDone(r) ==
    LET s == run[r]
        f == FileOf(r)
    IN /\ s.events # <<>> /\ s.events[Len(s.events)].type = "done"
       /\ Len(EventsOfType(s, "done")) = 1 /\ EventsOfType(s, "error") = <<>>
       /\ s.currentTask = s.totalTasks
       /\ f.state = "complete" /\ f.entries = s.allResults
       /\ Len(f.entries) = s.totalTasks
       /\ Len(s.started) = s.totalTasks
       /\ \A k \in 1..Len(f.entries) :
             /\ f.entries[k].id = s.started[k].id
             /\ f.entries[k].taskType = TaskTypes[s.started[k].cat]
       /\ \A c \in 1..Len(TaskTypes) :
             Len(EntriesOfType(f.entries, TaskTypes[c])) = CategoryTotal(s, c)

IsFailureEntry(x, s) ==
    /\ x.id = s.currentTask /\ x.taskType = TaskTypes[s.cat]
    /\ x.question = GenerationFailed
    /\ x.answer = s.workResult.error /\ x.answer # ""

\* safeModelCall returned a failure for the task the run is at.
CallFailed(s) ==
    /\ ~s.workResult.success
    /\ Len(AttemptsOf(s.callTrace)) = retries + 1
    /\ \A k \in 1..Len(s.callTrace) : s.callTrace[k].outcome # "content"

FailureIsRecorded ==
    \A r \in Runs :
        LET s == run[r]
        IN /\ (s.pc = "appendLog" /\ CallFailed(s)) =>
                 /\ s.generatedQuestion = GenerationFailed
                 /\ s.generatedAnswer = s.workResult.error
           /\ (s.pc \in {"writeFile", "writing"} /\ CallFailed(s)) =>
                 IsFailureEntry(s.allResults[Len(s.allResults)], s)
           \* a run that started a task ends with `error` only when cancelled
           /\ (s.started # <<>> /\ EventsOfType(s, "error") # <<>>) =>
                 /\ EventsOfType(s, "error")[1].tag = CancelReport
                 /\ s.signalAborted

FailureNeverAborts ==
    \A r \in Runs :
        LET s == run[r]
            t == run'[r]
            f == resultsFile'[s.runTimestamp]
        IN \* the last attempt failed: the run goes on to log the answer
           /\ (s.pc = "chat" /\ s.attempt = retries /\ t.pc # "chat"
               /\ ~t.workResult.success) =>
                 /\ t.pc = "appendLog" /\ CallFailed(t)
           \* the answer is logged: the entry is appended
           /\ (s.pc = "appendLog" /\ CallFailed(s) /\ t.pc # "appendLog"
               /\ ~isCancelled(s)) =>
                 /\ t.pc = "writeFile"
                 /\ Len(t.allResults) = Len(s.allResults) + 1
           \* the entry is persisted and the next task, if any, starts
           /\ (s.pc = "writing" /\ CallFailed(s) /\ t.pc # "writing") =>
                 /\ f.state = "complete" /\ f.entries = s.allResults
                 /\ IsFailureEntry(f.entries[Len(f.entries)], s)
                 /\ ~isCancelled(s) =>
                       /\ t.pc \in {"chat", "mkdirLoop", "closed"}
                       /\ t.pc = "closed" =>
                             /\ t.events[Len(t.events)].type = "done"
                             /\ t.currentTask = t.totalTasks
                       /\ s.i + 1 < Len(ContentArray(s)) =>
                             /\ t.pc = "chat"
                             /\ Len(t.started) = Len(s.started) + 1

\* C13: a task whose model call failed on all its attempts never aborts the
\* run: an entry with the failure marker as question and the error text as
\* answer is appended and written to results.json, and the engine goes on to
\* the next task.
C13_FailureIsRecorded == []FailureIsRecorded /\ [][FailureNeverAborts]_vars

C13_Witness ==
    \E r \in Runs :
        LET s == run[r]
            f == FileOf(r)
        IN /\ s.pc = "chat" /\ Len(s.started) = 2 /\ ~s.signalAborted
           /\ f.state = "complete" /\ Len(f.entries) = 1
           /\ f.entries[1].question = GenerationFailed
           /\ f.entries[1].answer = UnexpectedFormatMsg
           /\ s.anomalies = retries + 1

\* ------------------------------------------------------------------- C14
CancelStartsNothing ==
    \A r \in Runs :
        LET s == run[r]
            t == run'[r]
        IN isCancelled(s) =>
             \* no task is started
             /\ t.started = s.started
             /\ t.currentTask = s.currentTask
             \* handleChat is called only as a retry of the call in progress
             /\ t.invocations > s.invocations =>
                   /\ s.pc = "delay" /\ t.callTrace # <<>>
                   /\ Len(t.callTrace) = Len(s.callTrace) + 1
             \* no later category is entered
             /\ t.cat = s.cat
             /\ t.systemPrompts = s.systemPrompts

\* C14: once the cancellation signal of a run is set the engine starts the
\* model invocation of no task that had not been started before, and it
\* enters no later category.
C14_CancelStartsNoTask == [][CancelStartsNothing]_vars

\* A run cancelled while its first task was written: the poll of line 346
\* kept it out of the last category, whose task was never started.
C14_Witness ==
    \E r \in Runs :
        LET s == run[r]
        IN /\ s.pc = "closed" /\ s.signalAborted /\ s.observed
           /\ Len(s.started) = 1 /\ s.persisted = <<1>> /\ s.invocations = 1
           /\ s.cat = 1 /\ CategoryTotal(s, 1) = 1 /\ CategoryTotal(s, 4) = 1
           /\ s.currentTask = 1 /\ s.totalTasks = 2
           /\ EventsOfType(s, "error") = <<>>

\* ------------------------------------------------------------------- C15
CancelStopsRetries ==
    \A r \in Runs :
        LET s == run[r]
            t == run'[r]
        IN isCancelled(s) =>
             \* no further attempt
             /\ t.invocations = s.invocations
             \* no further pause before a retry
             /\ t.pc = "delay" => s.pc = "delay"

\* C15: once the cancellation signal of a run is set while the model call of
\* a task is in progress, safeModelCall starts no further attempt and no
\* further pause before a retry for that task.
C15_CancelStopsRetries == [][CancelStopsRetries]_vars

\* ------------------------------------------------------------------- C16
IsTerminal(e) == e.type \in {"done", "error"}

TerminalEvents(s) == SelectSeq(s.events, IsTerminal)

\* C16: a run that stopped because the engine observed the cancellation
\* signal (in the classification of the knowledge files, at a poll of a
\* loop, an item or a category, or in the progress callback) ends with the
\* cancellation message as its terminal event: not with another error
\* message, not with `done`, and not without a terminal event.
C16_CancelIsReported ==
    \A r \in Runs :
        LET s == run[r]
        IN (s.pc = "closed" /\ s.observed) =>
             /\ TerminalEvents(s) # <<>>
             /\ \A k \in 1..Len(TerminalEvents(s)) :
                   /\ TerminalEvents(s)[k].type = "error"
                   /\ TerminalEvents(s)[k].tag = CancelReport

\* ------------------------------------------------------------------- C17
OneTerminalLast ==
    \A r \in Runs :
        LET s == run[r]
        IN /\ Len(TerminalEvents(s)) <= 1
           /\ \A k \in 1..Len(s.events) :
                 IsTerminal(s.events[k]) => k = Len(s.events) /\ s.pc = "closed"
           /\ s.closes <= 1

NothingAfterTerminal ==
    \A r \in Runs :
        TerminalEvents(run[r]) # <<>> => run'[r].events = run[r].events

\* C17: `done` and `error` are terminal: a run emits at most one of them, it
\* is the last event of the stream, and once it is emitted the events of the
\* run never change.
C17_TerminalIsLast == []OneTerminalLast /\ [][NothingAfterTerminal]_vars

C17_Witness ==
    \E r \in Runs :
        LET s == run[r]
        IN /\ s.pc = "closed" /\ Len(s.events) >= 6 /\ s.signalAborted
           /\ Len(s.started) = 1
           /\ s.events[Len(s.events)].type = "error"
           /\ s.events[Len(s.events)].tag = CancelReport
           /\ \A k \in 1..(Len(s.events) - 1) : ~IsTerminal(s.events[k])

\* ------------------------------------------------------------------- C18
\* The tasks of the categories the run did not skip.
RECURSIVE TasksToRun(_, _)
TasksToRun(s, c) ==
    IF c = 0 THEN 0
    ELSE TasksToRun(s, c - 1)
         + (IF trim(s.systemPrompts[c]) = "" THEN 0 ELSE CategoryTotal(s, c))

\* C18: no task is dropped silently: when a run is over, each of its planned
\* tasks has exactly one entry in results.json, or else the final event of
\* the run tells why it has none (`done` after the skip of its category, or
\* the cancellation or error event); a task whose model call returned has
\* an entry or a final cancellation or error event.
C18_NothingDropped ==
    \A r \in Runs :
        LET s == run[r]
            f == FileOf(r)
            final == s.events[Len(s.events)]
            entries == IF f.state = "complete" THEN f.entries ELSE <<>>
        IN (s.pc = "closed" /\ s.totalTasks > 0) =>
             /\ IsTerminal(final)
             /\ \A j, k \in 1..Len(entries) :
                   entries[j].id = entries[k].id => j = k
             /\ final.type = "done" =>
                   /\ Len(s.systemPrompts) = Len(TaskTypes)
                   /\ Len(entries) = TasksToRun(s, Len(TaskTypes))
             /\ \A k \in 1..Len(s.started) :
                   (k < Len(s.started) \/ CallReturned(s)) =>
                      \/ \E j \in 1..Len(entries) :
                            entries[j].id = s.started[k].id
                      \/ final.type = "error"

\* ------------------------------------------------------------------- C19
\* The errors runTask and POST raise themselves.
EngineErrors ==
    {"", CancelMsg, ZeroTasksMsg, KnowledgeDirMsg(ReadErrorMsg),
     KnowledgeDirMsg(CancelMsg)}

RefusedSendIsNoFault ==
    \A r \in Runs : run[r].refused => run[r].error \in EngineErrors

DisconnectStartsNothing ==
    \A r \in Runs :
        LET s == run[r]
            t == run'[r]
        IN s.consumerGone =>
             /\ t.started = s.started
             /\ t.invocations > s.invocations => s.pc = "delay"

\* C19: a send the stream refuses after its consumer cancelled it raises no
\* error in the engine, and the engine takes the disconnect of the consumer
\* for a cancellation: once the consumer is gone it starts no further task.
C19_DisconnectIsCancellation ==
    []RefusedSendIsNoFault /\ [][DisconnectStartsNothing]_vars

\* ------------------------------------------------------------------- C20
\* The items of a collection that come from file f.
FromFile(items, f) == SelectSeq(items, LAMBDA x : x.file = f)

\* The paragraphs of a file: its non-blank lines that start the file or
\* follow a blank line.
Paragraphs(lines) ==
    { k \in 1..Len(lines) : lines[k] # "" /\ (k = 1 \/ lines[k - 1] = "") }

\* The files the run has classified so far.
Classified(s) == 1..(s.fileIdx - 1)

\* C20: a file with more than 5 Q:/A: matches contributes to the QA
\* collection only, one item per non-blank paragraph; any other file, one
\* with exactly 5 matches included, contributes one document and one chunk
\* per non-blank paragraph and no QA item; no file contributes to all three
\* collections, and there are as many documents as non-QA files.
C20_ClassificationPartitions ==
    \A r \in Runs :
        LET s == run[r]
        IN /\ \A f \in Classified(s) :
                 LET content == knowledgeFiles[f]
                     q == FromFile(s.qaPairs, f)
                     c == FromFile(s.chunks, f)
                     d == FromFile(s.documents, f)
                 IN /\ qaRegexMatches(content) > 5 =>
                          /\ c = <<>> /\ d = <<>>
                          /\ Len(q) = Cardinality(Paragraphs(content))
                          /\ {q[k].block : k \in 1..Len(q)} = Paragraphs(content)
                    /\ qaRegexMatches(content) <= 5 =>
                          /\ q = <<>> /\ Len(d) = 1
                          /\ Len(c) = Cardinality(Paragraphs(content))
                          /\ {c[k].block : k \in 1..Len(c)} = Paragraphs(content)
                    /\ ~(q # <<>> /\ c # <<>> /\ d # <<>>)
           /\ \A k \in 1..Len(s.qaPairs) : s.qaPairs[k].file \in Classified(s)
           /\ \A k \in 1..Len(s.chunks) : s.chunks[k].file \in Classified(s)
           /\ \A k \in 1..Len(s.documents) : s.documents[k].file \in Classified(s)
           /\ Len(s.documents) =
                 Cardinality({f \in Classified(s) :
                                 qaRegexMatches(knowledgeFiles[f]) <= 5})

\* A run that classified a file with six matches and a file with exactly
\* five matches in two paragraphs.
C20_Witness ==
    \E r \in Runs :
        LET s == run[r]
        IN /\ Len(knowledgeFiles) = 2 /\ s.fileIdx = 3 /\ s.totalTasks > 0
           /\ qaRegexMatches(knowledgeFiles[1]) = 6
           /\ qaRegexMatches(knowledgeFiles[2]) = 5
           /\ Len(s.qaPairs) = 1 /\ s.qaPairs[1].file = 1
           /\ Len(s.documents) = 1 /\ s.documents[1].file = 2
           /\ Len(s.chunks) = 2 /\ s.chunks[1].file = 2 /\ s.chunks[2].file = 2

\* ------------------------------------------------------------------- C21
\* The run failed on a read of the knowledge directory or of one of its files.
ReadFailed(s) == s.error = KnowledgeDirMsg(ReadErrorMsg)

\* C21: a failed read of the knowledge directory is fatal (the run ends with
\* an `error` event and executes no task), whereas a failed read of one file
\* of the directory is not: the file is skipped and the run goes on, so no
\* run that has listed the directory ends with the read error.
C21_FileFailureIsSkipped ==
    \A r \in Runs :
        LET s == run[r]
        IN /\ (ReadFailed(s) /\ s.fileIdx = 0) =>
                 /\ s.pc = "closed" /\ s.started = <<>> /\ s.invocations = 0
                 /\ Len(EventsOfType(s, "error")) = 1
                 /\ s.events[Len(s.events)].type = "error"
           /\ s.fileIdx >= 1 => ~ReadFailed(s)

\* ------------------------------------------------------------------- C22
\* The model call succeeded with a text that is not a {question, answer}
\* object: not JSON, or JSON without its question or its answer.
Unusable(w) ==
    /\ w.success /\ w.content # ""
    /\ \/ ~JSONparse(w.content).ok
       \/ JSONparse(w.content).question = ""
       \/ JSONparse(w.content).answer = ""

ParseFailureMarkers == {ParseJsonFailed, MissingQuestion}

\* C22: when the text of a successful model call cannot be used as a
\* {question, answer} object the task is kept: its entry is recorded with a
\* parse-failure marker as the question and the raw text as the answer.
C22_UnusableIsRecordedRaw ==
    \A r \in Runs :
        LET s == run[r]
            x == s.allResults[Len(s.allResults)]
        IN (s.pc \in {"writeFile", "writing"} /\ Unusable(s.workResult)) =>
              /\ x.id = s.currentTask
              /\ x.question \in ParseFailureMarkers
              /\ x.answer = s.workResult.content

\* ------------------------------------------------------------------- C23
DeadlinePerAttempt ==
    \* a call in progress has its own timer, armed or expired
    /\ call.pc \in {"log", "sdk", "adapt"} => call.timer \in {"armed", "fired"}
    \* the controller is aborted by the timer only
    /\ call.aborted => call.timer = "fired"
    \* the timer does not outlive the call
    /\ call.pc \in {"returned", "threw"} => call.timer # "armed"
    /\ call.leaked = 0

ExpiredAttemptThrows ==
    (call.pc = "sdk" /\ call.aborted /\ call'.pc # "sdk") => call'.pc = "threw"

\* C23: every call of the provider has its own deadline of timeoutMs; a call
\* whose deadline expires while the model is asked is aborted and ends as a
\* call that threw; the timer of a call never outlives the call.
C23_DeadlinePerAttempt == []DeadlinePerAttempt /\ [][ExpiredAttemptThrows]_vars

\* ------------------------------------------------------------------- C24
TokenEvents(s) == EventsOfType(s, "token_usage")

LastTokenUsage(s) ==
    IF TokenEvents(s) = <<>> THEN 0
    ELSE TokenEvents(s)[Len(TokenEvents(s))].value

TokenUsageIsRunningTotal ==
    \A r \in Runs :
        LET s == run[r]
            T == TokenEvents(s)
        IN /\ \A k \in 2..Len(T) : T[k - 1].value <= T[k].value
           /\ LastTokenUsage(s) <= s.totalTokenUsage
           /\ ~isCancelled(s) => LastTokenUsage(s) = s.totalTokenUsage

\* A token_usage event is sent when a model call returned with its usage,
\* and it carries the last value plus the total_tokens of that call.
TokenUsageAddsCall ==
    \A r \in Runs :
        LET s == run[r]
            t == run'[r]
        IN /\ Len(TokenEvents(t)) \in {Len(TokenEvents(s)), Len(TokenEvents(s)) + 1}
           /\ SubSeq(TokenEvents(t), 1, Len(TokenEvents(s))) = TokenEvents(s)
           /\ Len(TokenEvents(t)) > Len(TokenEvents(s)) =>
                 /\ s.pc = "chat" /\ t.workResult.success
                 /\ LastTokenUsage(t) = LastTokenUsage(s) + t.workResult.tokens
           /\ (s.pc = "chat" /\ t.pc = "appendLog" /\ t.workResult.success) =>
                 Len(TokenEvents(t)) = Len(TokenEvents(s)) + 1

\* C24: the value of every token_usage event is the running total of
\* total_tokens over the model calls of the run that returned so far: each
\* event adds the tokens of the call that just returned to the value of the
\* event before it, and the values never decrease.
C24_TokenUsageCumulative ==
    []TokenUsageIsRunningTotal /\ [][TokenUsageAddsCall]_vars

C24_Witness ==
    \E r \in Runs :
        LET T == TokenEvents(run[r])
        IN /\ Len(T) = 2 /\ T[1].value = 3 /\ T[2].value = 10
           /\ run[r].totalTokenUsage = 10 /\ Len(run[r].persisted) = 2

\* ------------------------------------------------------------------- C25
InputsUntouched ==
    /\ knowledgeFiles' = knowledgeFiles
    /\ \A r \in Runs :
          LET s == run[r]
              t == run'[r]
          IN Started(r) =>
               /\ t.config = s.config
               /\ t.runTimestamp = s.runTimestamp
               /\ Len(t.systemPrompts) >= Len(s.systemPrompts)
               /\ SubSeq(t.systemPrompts, 1, Len(s.systemPrompts)) = s.systemPrompts

\* What a step writes lies in the result directory of a run that is in the
\* call that writes it.
WritesOwnDirectory ==
    /\ \A ts \in Timestamps :
          resultsFile'[ts] # resultsFile[ts] =>
             \E r \in Runs : /\ run[r].runTimestamp = ts
                              /\ run[r].pc \in {"writeFile", "writing"}
    /\ \A ts \in baseDirs' \ baseDirs :
          \E r \in Runs : run[r].runTimestamp = ts /\ run[r].pc = "mkdirBase"
    /\ \A d \in loopDirs' \ loopDirs :
          \E r \in Runs : /\ d = <<run[r].runTimestamp, run[r].loop>>
                           /\ run[r].pc = "mkdirLoop"
    /\ baseDirs \subseteq baseDirs' /\ loopDirs \subseteq loopDirs'

\* C25: no step of a run changes the knowledge directory or the
\* configuration the run was started with, and what a run creates or writes
\* lies under its own result directory.
C25_InputsNeverMutated == [][InputsUntouched /\ WritesOwnDirectory]_vars

C25_Witness ==
    \E r \in Runs :
        LET s == run[r]
        IN /\ s.pc = "closed" /\ Len(knowledgeFiles) = 2 /\ s.fileIdx = 3
           /\ Len(s.persisted) >= 2 /\ s.config.qaCount = 1
           /\ FileOf(r).state = "complete"
           /\ <<s.runTimestamp, 1>> \in loopDirs
           /\ s.runTimestamp \in baseDirs

\* ------------------------------------------------------------------- C26
StateUpdates(s) == EventsOfType(s, "state_update")

\* C26: the state_update event of a task is sent after its entry was
\* appended and results.json rewritten: whenever the event is on the stream
\* the entry of its task is in the file (and the token_usage event of the
\* task, if any, comes before it).
C26_StateUpdateAfterPersist ==
    \A r \in Runs :
        LET s == run[r]
            f == FileOf(r)
        IN \A k \in 1..Len(s.events) :
              s.events[k].type = "state_update" =>
                 /\ s.events[k].currentTask \in
                       {s.persisted[j] : j \in 1..Len(s.persisted)}
                 /\ \E j \in 1..Len(s.allResults) :
                       s.allResults[j].id = s.events[k].currentTask
                 /\ f.state \in {"complete", "partial"}
                 /\ f.state = "complete" =>
                       \E j \in 1..Len(f.entries) :
                          f.entries[j].id = s.events[k].currentTask

\* ------------------------------------------------------------------- C27
\* The run is inside a writeFile of results.json.
InRewrite(s) == s.pc \in {"writeFile", "writing"}

CancelStartsNoRewrite ==
    \A r \in Runs :
        LET s == run[r]
            t == run'[r]
        IN isCancelled(s) =>
             \* no writeFile is called
             /\ InRewrite(t) => InRewrite(s)
             /\ t.allResults = s.allResults
             \* the file changes only by the rewrite in progress
             /\ resultsFile'[s.runTimestamp] # resultsFile[s.runTimestamp] =>
                   InRewrite(s)

CancelKeepsLastRewrite ==
    \A r \in Runs :
        LET s == run[r]
            f == FileOf(r)
        IN (isCancelled(s) /\ ~InRewrite(s)) =>
             /\ f.state \in {"absent", "complete"}
             /\ f.entries = s.allResults

\* C27: once the cancellation signal of a run is set the engine calls no
\* new writeFile of results.json: the file changes only by the rewrite that
\* was in progress, and then keeps the content of that last rewrite.
C27_CancelStartsNoRewrite ==
    []CancelKeepsLastRewrite /\ [][CancelStartsNoRewrite]_vars

\* Cancelled while the second model call was pending: the call returned, the
\* second entry was never written.
C27_Witness ==
    \E r \in Runs :
        LET s == run[r]
            f == FileOf(r)
        IN /\ s.pc = "closed" /\ s.signalAborted
           /\ Len(s.started) = 2 /\ s.invocations = 2
           /\ s.workResult.success
           /\ f.state = "complete" /\ Len(f.entries) = 1
           /\ s.persisted = <<1>>

\* ------------------------------------------------------------------- C28
\* The errors an attempt of safeModelCall can end with.
AttemptErrors == {FetchFailedMsg, UnexpectedFormatMsg, CriticalErrorMsg}

\* C28: safeModelCall retries an attempt that threw and an attempt that
\* returned without textual content alike; it returns success with the
\* content and the usage exactly when an attempt returned string content,
\* otherwise failure with an error message, and it never throws: no run ends
\* with the error of an attempt.
C28_InvokerResult ==
    \A r \in Runs :
        LET s == run[r]
            A == AttemptsOf(s.callTrace)
            w == s.workResult
        IN /\ s.error \notin AttemptErrors
           /\ \A k \in 1..(Len(A) - 1) : A[k].outcome \in {"throw", "malformed"}
           /\ Len(PausesOf(s.callTrace)) =
                 IF s.pc = "delay" \/ A = <<>> THEN Len(A) ELSE Len(A) - 1
           /\ s.pc = "delay" => A[Len(A)].outcome \in {"throw", "malformed"}
           /\ CallReturned(s) =>
                 /\ w.success <=> \E k \in 1..Len(A) : A[k].outcome = "content"
                 /\ w.success =>
                       /\ A[Len(A)].outcome = "content"
                       /\ w.content = A[Len(A)].content
                       /\ w.hasUsage /\ w.tokens > 0 /\ w.error = ""
                 /\ ~w.success =>
                       /\ Len(A) = retries + 1
                       /\ w.error \in AttemptErrors /\ w.error # ""
                       /\ w.content = "" /\ ~w.hasUsage
                       /\ A[Len(A)].outcome = "throw" => w.error = A[Len(A)].content
                       /\ A[Len(A)].outcome = "malformed" =>
                             w.error = UnexpectedFormatMsg

\* A call that succeeded on its third attempt, after an attempt that threw
\* and one that returned no textual content.
C28_Witness ==
    \E r \in Runs :
        LET s == run[r]
            A == AttemptsOf(s.callTrace)
        IN /\ s.pc = "appendLog" /\ Len(A) = 3 /\ s.workResult.success
           /\ A[1].outcome = "throw" /\ A[2].outcome = "malformed"
           /\ A[3].outcome = "content" /\ s.workResult.content = QaJson

\* ------------------------------------------------------------------- C29
\* The tasks of the Comprehensive category the run has started.
ComprehensiveTasks(s) == SelectSeq(s.started, LAMBDA x : x.cat = Len(TaskTypes))

\* C29: comprehensiveCount is a number of tasks, not a multiplier: with a
\* non-blank Comprehensive prompt a run that is not cancelled executes
\* exactly comprehensiveCount Comprehensive tasks, whatever the number of
\* documents, in one round, and each of them sends the same user message,
\* all the documents in document order.
C29_ComprehensiveIsFixedCount ==
    \A r \in Runs :
        LET s == run[r]
            C == ComprehensiveTasks(s)
        IN /\ Len(C) <= s.config.comprehensiveCount
           /\ \A k \in 1..Len(C) :
                 /\ C[k].userMessage = s.documents
                 /\ C[k].loop = 1 /\ C[k].i = k - 1
           /\ (s.pc = "closed" /\ NeverCancelled(s) /\ s.totalTasks > 0
               /\ Len(s.systemPrompts) = Len(TaskTypes)
               /\ trim(s.systemPrompts[Len(TaskTypes)]) # "") =>
                 /\ Len(C) = s.config.comprehensiveCount
                 /\ Len(EntriesOfType(s.allResults, "Comprehensive"))
                       = s.config.comprehensiveCount

\* Two documents and comprehensiveCount 2: two Comprehensive tasks, not four.
C29_Witness ==
    \E r \in Runs :
        LET s == run[r]
            C == ComprehensiveTasks(s)
        IN /\ s.pc = "closed" /\ NeverCancelled(s)
           /\ Len(s.documents) = 2 /\ s.config.comprehensiveCount = 2
           /\ Len(C) = 2 /\ C[1].userMessage = C[2].userMessage
           /\ Len(C[1].userMessage) = 2
           /\ C[1].userMessage[1].file = 1 /\ C[1].userMessage[2].file = 2
           /\ Len(EntriesOfType(s.allResults, "Comprehensive")) = 2

\* ------------------------------------------------------------------- C30
\* The tasks skipped so far: what the skip events added to the counter.
RECURSIVE SkippedUpTo(_, _)
SkippedUpTo(U, k) ==
    IF k = 0 THEN 0
    ELSE SkippedUpTo(U, k - 1)
         + (IF U[k].tag = "skip" THEN U[k].currentTask - CounterBefore(U, k)
            ELSE 0)

SkippedTasks(s) == SkippedUpTo(UpdateEvents(s), Len(UpdateEvents(s)))

\* C30: the ids of the entries of allResults are pairwise distinct and
\* strictly increasing in list order, each is the value the counter had when
\* its task was started, and the list never has more entries than the
\* counter says: it has fewer by the number of skipped tasks plus the one
\* task, if any, that was started and has no entry yet.
C30_EntryIds ==
    \A r \in Runs :
        LET s == run[r]
            E == s.allResults
            pending == IF Len(s.started) > Len(E) THEN 1 ELSE 0
        IN /\ \A j, k \in 1..Len(E) : j < k => E[j].id < E[k].id
           /\ Len(E) <= Len(s.started) /\ Len(s.started) <= Len(E) + 1
           /\ \A k \in 1..Len(E) : E[k].id = s.started[k].id /\ E[k].id >= 1
           /\ Len(E) <= s.currentTask
           /\ s.currentTask - Len(E) = SkippedTasks(s) + pending

\* A skipped category of two tasks, then a task that got the id 3.
C30_Witness ==
    \E r \in Runs :
        LET s == run[r]
        IN /\ s.pc = "closed" /\ SkippedTasks(s) = 2 /\ s.currentTask = 3
           /\ Len(s.allResults) = 1 /\ s.allResults[1].id = 3
           /\ s.totalTasks = 3

\* ------------------------------------------------------------------- C31
\* The answers that stand for a failed model call: the error of the last
\* attempt, or the placeholder when there is none.
FailureAnswers ==
    {NotAvailable, UnexpectedFormatMsg, CriticalErrorMsg, FetchFailedMsg}

\* C31: the entry of a task whose model call returned success is never
\* recorded with the failure markers, whatever string the content is, the
\* empty string included: its question is not the generation-failure marker
\* and its answer is not the error or "N/A" placeholder.
C31_SuccessIsNotMarkedFailed ==
    \A r \in Runs :
        LET s == run[r]
            x == s.allResults[Len(s.allResults)]
        IN (s.pc \in {"writeFile", "writing"} /\ s.workResult.success) =>
              /\ x.id = s.currentTask
              /\ x.question # GenerationFailed
              /\ x.answer \notin FailureAnswers

\* ------------------------------------------------------------------- C32
\* The error of one failed attempt: the message of what it threw, or the
\* fixed message when it returned without textual content.
ErrorOfAttempt(a) ==
    IF a.outcome = "malformed" THEN UnexpectedFormatMsg
    ELSE IF a.content # "" THEN a.content ELSE CriticalErrorMsg

\* C32: when all attempts of a task failed, the error of the result of
\* safeModelCall, and with it the answer of the task's entry, is the error of
\* the last attempt alone: a last attempt without textual content reports
\* the fixed unexpected-format message even when earlier attempts threw.
C32_LastAttemptError ==
    \A r \in Runs :
        LET s == run[r]
            A == AttemptsOf(s.callTrace)
            x == s.allResults[Len(s.allResults)]
        IN (CallReturned(s) /\ CallFailed(s)) =>
              /\ s.workResult.error = ErrorOfAttempt(A[Len(A)])
              /\ s.pc \in {"appendLog", "writeFile", "writing"} =>
                    s.generatedAnswer = ErrorOfAttempt(A[Len(A)])
              /\ s.pc \in {"writeFile", "writing"} =>
                    /\ x.id = s.currentTask
                    /\ x.question = GenerationFailed
                    /\ x.answer = ErrorOfAttempt(A[Len(A)])

\* Two attempts threw, the last returned no textual content: the entry
\* carries the unexpected-format message, not the error thrown.
C32_Witness ==
    \E r \in Runs :
        LET s == run[r]
            A == AttemptsOf(s.callTrace)
        IN /\ s.pc = "writing" /\ Len(A) = retries + 1
           /\ A[1].outcome = "throw" /\ A[2].outcome = "throw"
           /\ A[3].outcome = "malformed"
           /\ A[1].content = FetchFailedMsg
           /\ s.allResults[Len(s.allResults)].answer = UnexpectedFormatMsg

\* ------------------------------------------------------------------- C33
\* C33: a run that has ended, on whatever path, has closed its response
\* stream exactly once and has removed the abort listener it registered on
\* the request.
C33_ClosedOnceListenerRemoved ==
    \A r \in Runs :
        LET s == run[r]
        IN /\ s.closes <= 1
           /\ s.pc = "closed" => s.closes = 1 /\ ~s.listener

\* ------------------------------------------------------------------- C34
\* C34: a run over an empty knowledge directory never invokes the model,
\* whatever the repeat counts are: it fails with the zero-task error or ends
\* without a task.
C34_EmptyCorpusInvokesNothing ==
    \A r \in Runs :
        LET s == run[r]
        IN knowledgeFiles = <<>> =>
              /\ s.invocations = 0 /\ s.started = <<>>
              /\ s.pc \notin {"chat", "delay"}

\* ------------------------------------------------------------------- C35
DistinctIds(entries) ==
    \A j, k \in 1..Len(entries) : j # k => entries[j].id # entries[k].id

\* The entries with the ids given, in order.
IdsOf(entries) == [k \in 1..Len(entries) |-> entries[k].id]

\* What a request that passed its switch is about to write, against what it
\* read.
AddIsMaxPlusOne(E, D) ==
    /\ Len(D) = Len(E) + 1 /\ SubSeq(D, 1, Len(E)) = E
    /\ D[Len(D)].id >= 1
    /\ \A k \in 1..Len(E) : D[Len(D)].id > E[k].id
    /\ \/ D[Len(D)].id = 1
       \/ \E k \in 1..Len(E) : D[Len(D)].id = E[k].id + 1

EditKeepsIds(E, D, id) ==
    /\ IdsOf(D) = IdsOf(E)
    /\ \A k \in 1..Len(E) : E[k].id # id => D[k] = E[k]
    /\ \A k \in 1..Len(E) :
          E[k].id = id => D[k].question = "edited-question"
                          /\ D[k].taskType = E[k].taskType

DeleteRemovesId(E, D, id) ==
    D = SelectSeq(E, LAMBDA x : x.id # id)

Absent(E, id) == \A k \in 1..Len(E) : E[k].id # id

\* C35: under requests made one after the other, starting from a file whose
\* ids are pairwise distinct, the ids of the file stay pairwise distinct: add
\* appends an entry with the id max(ids, 0) + 1, edit changes the entry with
\* the id given and keeps every id, delete removes exactly the entries with
\* the id given, and an edit or delete of an absent id leaves the list as it
\* was; a request answered 200 has written its list.
C35_IdsStayDistinct ==
    \A q \in Requests :
        LET req == crud[q]
            f == resultsFile[req.timestamp]
        IN /\ f.state = "complete" => DistinctIds(f.entries)
           /\ req.pc \in {"write", "writing"} =>
                 /\ DistinctIds(req.data)
                 /\ req.pc = "write" => f.state = "complete" /\ f.entries = req.input
                 /\ req.action = "add" => AddIsMaxPlusOne(req.input, req.data)
                 /\ req.action = "edit" => EditKeepsIds(req.input, req.data, req.id)
                 /\ req.action = "delete" =>
                       DeleteRemovesId(req.input, req.data, req.id)
                 /\ (req.action \in {"edit", "delete"} /\ Absent(req.input, req.id))
                       => req.data = req.input
           /\ (req.pc = "done" /\ req.status = 200) =>
                 f.state = "complete" /\ f.entries = req.data

\* An add to the file with the ids 1 and 3 was given the id 4 and written.
C35_Witness ==
    \E q \in Requests :
        /\ crud[q].pc = "done" /\ crud[q].status = 200 /\ crud[q].action = "add"
        /\ IdsOf(crud[q].input) = <<1, 3>>
        /\ IdsOf(resultsFile[crud[q].timestamp].entries) = <<1, 3, 4>>

\* ------------------------------------------------------------------- C36
\* The file holds what request b wrote, and b had read what request a wrote:
\* the two took effect in the order a, b.
TookEffectInOrder(a, b) ==
    /\ crud[b].input = crud[a].data
    /\ resultsFile[crud[b].timestamp].state = "complete"
    /\ resultsFile[crud[b].timestamp].entries = crud[b].data

\* C36: two add/edit/delete requests to the same file that are processed
\* concurrently both take effect: once both are answered 200 the file holds
\* the result of applying them one after the other in some order.
C36_ConcurrentRequestsSerialize ==
    \A a, b \in Requests :
        (/\ a # b
         /\ crud[a].pc = "done" /\ crud[a].status = 200
         /\ crud[b].pc = "done" /\ crud[b].status = 200
         /\ crud[a].timestamp = crud[b].timestamp)
        => TookEffectInOrder(a, b) \/ TookEffectInOrder(b, a)

\* ------------------------------------------------------------------- C37
KnownActions == {"add", "edit", "delete"}

Rejected(req) == req.status \in {400, 500}

\* Only a request with a known action that read its file gets to the write;
\* a rejected request is at its end.
RejectedNeverWrites ==
    \A q \in Requests :
        LET req == crud[q]
        IN /\ req.pc \in {"write", "writing"} =>
                 req.action \in KnownActions /\ ~Rejected(req)
           /\ Rejected(req) => req.pc = "done"
           /\ req.status = 400 => req.action \notin KnownActions

\* A request whose file cannot be read or parsed is answered 500, one with
\* an unknown action 400, and neither the step that rejects a request nor
\* any step while it is rejected changes the file.
RejectionLeavesFile ==
    \A q \in Requests :
        LET req == crud[q]
            f == resultsFile[req.timestamp]
        IN /\ (req.pc = "read" /\ crud'[q] # req) =>
                 /\ f.state # "complete" =>
                       crud'[q].pc = "done" /\ crud'[q].status = 500
                 /\ (f.state = "complete" /\ req.action \notin KnownActions) =>
                       crud'[q].pc = "done" /\ crud'[q].status = 400
                 /\ (f.state = "complete" /\ req.action \in KnownActions) =>
                       crud'[q].pc = "write"
           /\ (Rejected(req) \/ Rejected(crud'[q])) => resultsFile' = resultsFile

C38_CountsSurviveRehydration ==
    (appStore.rehydrated /\ appStore.lastSet # NoSet) =>
        appStore.runResultsConfig[appStore.lastSet.field] = appStore.lastSet.count

====
